---- MODULE Spec2Model ----
(***************************************************************************)
(* Signal-generation decision engine of the XAU/USD analysis bot.          *)
(*                                                                         *)
(* Units.  Prices and distances are integers: a confirmation weight is     *)
(* counted in tenths, a confidence in hundredths.  The Python code works   *)
(* on binary floats; the input sets below are chosen so that every         *)
(* comparison the code makes has the same outcome in exact arithmetic.     *)
(***************************************************************************)
EXTENDS Integers, Sequences, FiniteSets, TLC

VARIABLES
    \* ConfirmationSystem.validate_confirmations
    confirmations,      \* the list of confirmation labels handed in
    direction,          \* SignalType of the candidate
    validation          \* the dictionary returned, or NoResult

confVars == <<confirmations, direction, validation>>

VARIABLES
    \* SignalGenerator._calculate_take_profits
    entry,              \* entry price, already rounded to 5 decimals
    trade_direction,    \* SignalType of the trade being constructed
    swing,              \* <<swing_high, swing_low>> found by FibonacciAnalysis
    sr_levels,          \* [support |-> list, resistance |-> list] of prices
    take_profits        \* the list returned, or NoResult

tpVars == <<entry, trade_direction, swing, sr_levels, take_profits>>

VARIABLES
    \* RiskCalculator.calculate_position_size
    account_balance,    \* self.account_balance, in dollars
    risk_percentage,    \* risk per trade, in hundredths of a percent
    stop_loss,          \* stop price handed in (the entry is `entry`)
    risk_params         \* the dictionary returned, or NoResult

posVars == <<account_balance, risk_percentage, stop_loss, risk_params>>

VARIABLES
    \* ICTAnalysis
    bars,               \* self.df: the bar series, oldest first
    ict_pc,             \* position inside full_ict_analysis
    order_blocks,       \* self.order_blocks
    fvgs,               \* the local list `fvgs` of identify_fair_value_gaps
    fair_value_gaps,    \* self.fair_value_gaps
    breaker_blocks,     \* the list returned by identify_breaker_blocks
    ict_error           \* the exception that left full_ict_analysis

ictVars == <<bars, ict_pc, order_blocks, fvgs, fair_value_gaps,
             breaker_blocks, ict_error>>

VARIABLES
    \* SignalGenerator.generate_signal
    data_dict,          \* self.data_dict: timeframe -> frame, None or absent
    news_data,          \* self.news_data
    gen_pc,             \* position inside generate_signal
    mtf_result,         \* what analyze_all_timeframes returned
    trade_rec,          \* what get_trade_recommendation returned
    entry_analysis,     \* the indicator results on the entry timeframe
    news_check,         \* what _check_news_alignment returned
    signal,             \* the value returned: a signal or None
    gen_error           \* the exception that left generate_signal

genVars == <<data_dict, news_data, gen_pc, mtf_result, trade_rec,
             entry_analysis, news_check, signal, gen_error>>

VARIABLES
    \* ICTAnalysis._find_equal_levels
    prices,             \* the list of swing prices handed in
    equal_levels        \* LIQUIDITY_SWEEP_PIPS setting tried -> list returned

eqVars == <<prices, equal_levels>>

VARIABLES
    \* HistoricalDataManager.get_data_for_analysis
    raw_rows,           \* the rows the Yahoo client delivered, in its order
    analysis_df,        \* what get_data_for_analysis returned
    detector_input      \* the rows handed to the detectors

dataVars == <<raw_rows, analysis_df, detector_input>>

VARIABLES
    now,            \* datetime.now(settings.TIMEZONE), in minutes after 00:00
    run_input,      \* the data_dict, the news list and what the entry frame shows
    outcomes        \* what the executions of generate_signal on run_input returned

runVars == <<now, run_input, outcomes>>

VARIABLES
    market_price,   \* current_price, the last close of the entry frame
    level_direction,\* the direction the levels are calculated for
    level_ict,      \* the order blocks and fair value gaps of ict_result
    level_sr,       \* the ranked support and resistance levels
    entry_result,   \* what _calculate_entry_levels returned
    stop_entry,     \* the entry _calculate_stop_loss was called with
    stop_result     \* what _calculate_stop_loss returned

entryVars == <<market_price, level_direction, level_ict, level_sr,
               entry_result, stop_entry, stop_result>>

VARIABLES
    pool_bars,      \* the frame identify_liquidity_pools reads
    liquidity_pools \* self.liquidity_pools after the call

poolVars == <<pool_bars, liquidity_pools>>

VARIABLES
    structure_bars, \* the frame analyze_market_structure reads
    structure       \* the dict it returned

structVars == <<structure_bars, structure>>

VARIABLES
    cycle_input,    \* the fetched data_dict and what the entry frame shows
    cycle_signal,   \* what generate_signal returned in the analysis cycle
    chart_call,     \* the arguments create_signal_chart was called with
    signal_sent     \* whether send_trading_signal was called

cycleVars == <<cycle_input, cycle_signal, chart_call, signal_sent>>

VARIABLES
    utcnow,            \* datetime.utcnow(), in hours
    last_signal_time,  \* self.last_signal_time, NoTime for None
    signals_generated, \* self.signals_generated
    forwarded_at,      \* the times send_trading_signal was called
    delivered,         \* how many of those calls reached the channel
    last_cycle         \* what the latest analysis cycle did with its signal

coolVars == <<utcnow, last_signal_time, signals_generated, forwarded_at,
              delivered, last_cycle>>

\* The main loop of the bot (src/src/main.py, GoldAnalysisBot.run).
VARIABLES
    is_running,          \* self.is_running
    consecutive_errors,  \* the local counter of run()
    analysis_count,      \* self.analysis_count
    shutdown_calls,      \* how many times shutdown() has been awaited
    loop_state,          \* "looping" inside the while loop, "returned" after run()
    stop_cause,          \* which exit path left the loop
    cycle_log            \* per finished cycle, TRUE when analysis_cycle raised

loopVars == <<is_running, consecutive_errors, analysis_count, shutdown_calls,
              loop_state, stop_cause, cycle_log>>

\* Retried downloads (src/src/data/yahoo_finance_client.py, _fetch_with_retry).
VARIABLES
    fetches,        \* how many times _fetch_with_retry has been called
    fetch_func,     \* what the wrapped call does at its 1st, 2nd, 3rd invocation
    fetch_trace     \* what the latest _fetch_with_retry did and returned

retryVars == <<fetches, fetch_func, fetch_trace>>

\* The two ICT labels that _collect_confirmations derives from the liquidity
\* pools and from the market structure (src/src/signal/signal_generator.py).
VARIABLES
    candidate,      \* trade_rec['direction'] of the candidate being confirmed
    ict_labels      \* the labels appended by the step under study

labelVars == <<candidate, ict_labels>>

\* The components added after the equal-level clustering.
restVars == <<dataVars, runVars, entryVars, poolVars, structVars, cycleVars,
             coolVars,
             loopVars,
             retryVars,
             labelVars>>

vars == <<confVars, tpVars, posVars, ictVars, genVars, eqVars, restVars>>

\* What each component leaves alone.
NotConf == <<tpVars, posVars, ictVars, genVars, eqVars, restVars>>

NotTP == <<confVars, posVars, ictVars, genVars, eqVars, restVars>>

NotPos == <<confVars, trade_direction, swing, sr_levels, take_profits,
            ictVars, genVars, eqVars, restVars>>

NotIct == <<confVars, tpVars, posVars, genVars, eqVars, restVars>>

NotEq == <<confVars, tpVars, posVars, ictVars, genVars, restVars>>

\* Python None (a value distinct from every dictionary)
NoResult == [none |-> TRUE]

BUY == "BUY"

SELL == "SELL"

NEUTRAL == "NEUTRAL"

(***************************************************************************)
(* A component that a specification does not exercise stays at rest.       *)
(***************************************************************************)
ConfIdle == confirmations = <<>> /\ direction = NEUTRAL /\ validation = NoResult

LevelsIdle ==
    /\ trade_direction = NEUTRAL
    /\ swing = <<0, 0>>
    /\ sr_levels = [support |-> <<>>, resistance |-> <<>>]
    /\ take_profits = NoResult

TPIdle == entry = 0 /\ LevelsIdle

PosIdle ==
    /\ account_balance = 0
    /\ risk_percentage = 0
    /\ stop_loss = 0
    /\ risk_params = NoResult

IctIdle ==
    /\ bars = <<>>
    /\ ict_pc = "idle"
    /\ order_blocks = <<>>
    /\ fvgs = <<>>
    /\ fair_value_gaps = <<>>
    /\ breaker_blocks = <<>>
    /\ ict_error = "none"

\* A key the dictionary does not hold.
Missing == [missing |-> TRUE]

GenIdle ==
    /\ data_dict = <<>>
    /\ news_data = <<>>
    /\ gen_pc = "idle"
    /\ mtf_result = NoResult
    /\ trade_rec = NoResult
    /\ entry_analysis = NoResult
    /\ news_check = NoResult
    /\ signal = NoResult
    /\ gen_error = "none"

EqIdle == prices = <<>> /\ equal_levels = <<>>

\* A call that has not returned yet.
Pending == [pending |-> TRUE]

DataIdle ==
    /\ raw_rows = <<>>
    /\ analysis_df = Pending
    /\ detector_input = Pending

RunIdle ==
    /\ now = 0
    /\ run_input = Pending
    /\ outcomes = <<>>

EntryIdle ==
    /\ market_price = 0
    /\ level_direction = NEUTRAL
    /\ level_ict = [order_blocks |-> <<>>, fair_value_gaps |-> <<>>]
    /\ level_sr = [support |-> <<>>, resistance |-> <<>>]
    /\ entry_result = Pending
    /\ stop_entry = 0
    /\ stop_result = Pending

PoolIdle ==
    /\ pool_bars = <<>>
    /\ liquidity_pools = Pending

StructIdle ==
    /\ structure_bars = <<>>
    /\ structure = Pending

CycleIdle ==
    /\ cycle_input = Pending
    /\ cycle_signal = Pending
    /\ chart_call = Pending
    /\ signal_sent = FALSE

CoolIdle ==
    /\ utcnow = 0
    /\ last_signal_time = -1
    /\ signals_generated = 0
    /\ forwarded_at = <<>>
    /\ delivered = 0
    /\ last_cycle = Pending

LoopIdle ==
    /\ is_running = TRUE
    /\ consecutive_errors = 0
    /\ analysis_count = 0
    /\ shutdown_calls = 0
    /\ loop_state = "looping"
    /\ stop_cause = "none"
    /\ cycle_log = <<>>

RetryIdle ==
    /\ fetches = 0
    /\ fetch_func = <<>>
    /\ fetch_trace = Pending

LabelIdle ==
    /\ candidate = "NEUTRAL"
    /\ ict_labels = Pending

RestIdle ==
    DataIdle /\ RunIdle /\ EntryIdle /\ PoolIdle /\ StructIdle /\ CycleIdle
    /\ CoolIdle
    /\ LoopIdle
    /\ RetryIdle
    /\ LabelIdle

Min(a, b) == IF a <= b THEN a ELSE b

Max(a, b) == IF a >= b THEN a ELSE b

Range(s) == {s[i] : i \in DOMAIN s}

(***************************************************************************)
(* Python strings.  A label is named by its string; Chars gives its        *)
(* characters so that the `in` operator is computed, not assumed.          *)
(***************************************************************************)
Chars(s) ==
    CASE s = "MULTI_TIMEFRAME_ALIGNMENT" ->
           <<"M","U","L","T","I","_","T","I","M","E","F","R","A","M","E","_","A","L","I","G","N","M","E","N","T">>
      [] s = "TREND_ALIGNED" ->
           <<"T","R","E","N","D","_","A","L","I","G","N","E","D">>
      [] s = "MOMENTUM_STRONG" ->
           <<"M","O","M","E","N","T","U","M","_","S","T","R","O","N","G">>
      [] s = "ICT_BULLISH_ORDER_BLOCK" ->
           <<"I","C","T","_","B","U","L","L","I","S","H","_","O","R","D","E","R","_","B","L","O","C","K">>
      [] s = "ICT_BEARISH_ORDER_BLOCK" ->
           <<"I","C","T","_","B","E","A","R","I","S","H","_","O","R","D","E","R","_","B","L","O","C","K">>
      [] s = "ICT_BULLISH_FVG" ->
           <<"I","C","T","_","B","U","L","L","I","S","H","_","F","V","G">>
      [] s = "ICT_BEARISH_FVG" ->
           <<"I","C","T","_","B","E","A","R","I","S","H","_","F","V","G">>
      [] s = "ICT_KILL_ZONE_LONDON" ->
           <<"I","C","T","_","K","I","L","L","_","Z","O","N","E","_","L","O","N","D","O","N">>
      [] s = "ICT_KILL_ZONE_NEW_YORK" ->
           <<"I","C","T","_","K","I","L","L","_","Z","O","N","E","_","N","E","W","_","Y","O","R","K">>
      [] s = "ICT_KILL_ZONE_ASIAN" ->
           <<"I","C","T","_","K","I","L","L","_","Z","O","N","E","_","A","S","I","A","N">>
      [] s = "STRONG_SUPPORT_LEVEL" ->
           <<"S","T","R","O","N","G","_","S","U","P","P","O","R","T","_","L","E","V","E","L">>
      [] s = "STRONG_RESISTANCE_LEVEL" ->
           <<"S","T","R","O","N","G","_","R","E","S","I","S","T","A","N","C","E","_","L","E","V","E","L">>
      [] s = "FIBONACCI_GOLDEN_RATIO" ->
           <<"F","I","B","O","N","A","C","C","I","_","G","O","L","D","E","N","_","R","A","T","I","O">>
      [] s = "MARKET_STRUCTURE_BREAK" ->
           <<"M","A","R","K","E","T","_","S","T","R","U","C","T","U","R","E","_","B","R","E","A","K">>
      [] s = "LIQUIDITY_SWEEP" ->
           <<"L","I","Q","U","I","D","I","T","Y","_","S","W","E","E","P">>
      [] s = "VOLUME_CONFIRMATION" ->
           <<"V","O","L","U","M","E","_","C","O","N","F","I","R","M","A","T","I","O","N">>
      [] s = "DIVERGENCE_DETECTED" ->
           <<"D","I","V","E","R","G","E","N","C","E","_","D","E","T","E","C","T","E","D">>
      [] s = "CANDLESTICK_PATTERN" ->
           <<"C","A","N","D","L","E","S","T","I","C","K","_","P","A","T","T","E","R","N">>
      [] s = "ICT_KILL_ZONE_LONDON_CLOSE" ->
           <<"I","C","T","_","K","I","L","L","_","Z","O","N","E","_","L","O","N","D","O","N","_","C","L","O","S","E">>
      [] s = "ICT" ->
           <<"I","C","T">>
      [] s = "ORDER_BLOCK" ->
           <<"O","R","D","E","R","_","B","L","O","C","K">>
      [] s = "FVG" ->
           <<"F","V","G">>
      [] s = "KILL_ZONE" ->
           <<"K","I","L","L","_","Z","O","N","E">>
      [] s = "LIQUIDITY" ->
           <<"L","I","Q","U","I","D","I","T","Y">>
      [] s = "TREND" ->
           <<"T","R","E","N","D">>
      [] s = "TIMEFRAME" ->
           <<"T","I","M","E","F","R","A","M","E">>
      [] s = "SUPPORT" ->
           <<"S","U","P","P","O","R","T">>
      [] s = "RESISTANCE" ->
           <<"R","E","S","I","S","T","A","N","C","E">>
      [] s = "FIBONACCI" ->
           <<"F","I","B","O","N","A","C","C","I">>
      [] s = "STRUCTURE" ->
           <<"S","T","R","U","C","T","U","R","E">>
      [] s = "BULLISH" ->
           <<"B","U","L","L","I","S","H">>
      [] s = "BEARISH" ->
           <<"B","E","A","R","I","S","H">>
      [] s = "BULLISH_FVG" ->
           <<"B","U","L","L","I","S","H","_","F","V","G">>
      [] s = "BEARISH_FVG" ->
           <<"B","E","A","R","I","S","H","_","F","V","G">>
      [] s = "rate" -> <<"r","a","t","e">>
      [] s = "fed" -> <<"f","e","d">>
      [] s = "cpi" -> <<"c","p","i">>
      [] s = "nfp" -> <<"n","f","p">>
      [] s = "inflation" -> <<"i","n","f","l","a","t","i","o","n">>
      [] s = "crisis" -> <<"c","r","i","s","i","s">>
      [] s = "fed cuts" -> <<"f","e","d"," ","c","u","t","s">>
      [] s = "cpi jumps" -> <<"c","p","i"," ","j","u","m","p","s">>
      [] s = "gold calm" -> <<"g","o","l","d"," ","c","a","l","m">>

\* Python `kw in s` on strings: kw occurs as a contiguous substring of s.
StrIn(kw, s) ==
    LET k == Chars(kw)
        c == Chars(s)
    IN  \E i \in 1..(Len(c) - Len(k) + 1) : SubSeq(c, i, i + Len(k) - 1) = k

(***************************************************************************)
(* ConfirmationSystem                                                      *)
(***************************************************************************)
\* Weights in tenths.
CONFIRMATION_WEIGHTS ==
    [l \in {"MULTI_TIMEFRAME_ALIGNMENT", "TREND_ALIGNED", "MOMENTUM_STRONG",
            "ICT_BULLISH_ORDER_BLOCK", "ICT_BEARISH_ORDER_BLOCK",
            "ICT_BULLISH_FVG", "ICT_BEARISH_FVG", "ICT_KILL_ZONE_LONDON",
            "ICT_KILL_ZONE_NEW_YORK", "ICT_KILL_ZONE_ASIAN",
            "STRONG_SUPPORT_LEVEL", "STRONG_RESISTANCE_LEVEL",
            "FIBONACCI_GOLDEN_RATIO", "MARKET_STRUCTURE_BREAK",
            "LIQUIDITY_SWEEP", "VOLUME_CONFIRMATION", "DIVERGENCE_DETECTED",
            "CANDLESTICK_PATTERN"} |->
        CASE l = "MULTI_TIMEFRAME_ALIGNMENT" -> 15
          [] l = "TREND_ALIGNED" -> 13
          [] l = "MOMENTUM_STRONG" -> 10
          [] l = "ICT_BULLISH_ORDER_BLOCK" -> 14
          [] l = "ICT_BEARISH_ORDER_BLOCK" -> 14
          [] l = "ICT_BULLISH_FVG" -> 12
          [] l = "ICT_BEARISH_FVG" -> 12
          [] l = "ICT_KILL_ZONE_LONDON" -> 13
          [] l = "ICT_KILL_ZONE_NEW_YORK" -> 13
          [] l = "ICT_KILL_ZONE_ASIAN" -> 8
          [] l = "STRONG_SUPPORT_LEVEL" -> 12
          [] l = "STRONG_RESISTANCE_LEVEL" -> 12
          [] l = "FIBONACCI_GOLDEN_RATIO" -> 11
          [] l = "MARKET_STRUCTURE_BREAK" -> 13
          [] l = "LIQUIDITY_SWEEP" -> 12
          [] l = "VOLUME_CONFIRMATION" -> 10
          [] l = "DIVERGENCE_DETECTED" -> 11
          [] l = "CANDLESTICK_PATTERN" -> 9]

\* dict.get(conf, 0.5)
DefaultWeight == 5

WeightOf(conf) ==
    IF conf \in DOMAIN CONFIRMATION_WEIGHTS
    THEN CONFIRMATION_WEIGHTS[conf]
    ELSE DefaultWeight

min_confirmations == 3

\* 3.0, in tenths
min_weighted_score == 30

IsIct(conf) ==
    \E kw \in {"ICT", "ORDER_BLOCK", "FVG", "KILL_ZONE", "LIQUIDITY"} :
        StrIn(kw, conf)

IsTrend(conf) == StrIn("TREND", conf) \/ StrIn("TIMEFRAME", conf)

IsStructure(conf) ==
    \E kw \in {"SUPPORT", "RESISTANCE", "FIBONACCI", "STRUCTURE"} :
        StrIn(kw, conf)

IsBullishConfirm(conf) == StrIn("BULLISH", conf) \/ StrIn("SUPPORT", conf)

IsBearishConfirm(conf) == StrIn("BEARISH", conf) \/ StrIn("RESISTANCE", conf)

BoolToInt(b) == IF b THEN 1 ELSE 0

\* Quality gate that asks for three of the four checks.
_perform_quality_checks_3of4(confs, dir) ==
    LET has_ict_concept == (\E i \in DOMAIN confs : IsIct(confs[i]))
        has_trend == (\E i \in DOMAIN confs : IsTrend(confs[i]))
        has_structure == (\E i \in DOMAIN confs : IsStructure(confs[i]))
        directional_alignment ==
            IF dir = BUY
            THEN Cardinality({i \in DOMAIN confs : IsBullishConfirm(confs[i])}) > Cardinality({i \in DOMAIN confs : IsBearishConfirm(confs[i])})
            ELSE Cardinality({i \in DOMAIN confs : IsBearishConfirm(confs[i])}) > Cardinality({i \in DOMAIN confs : IsBullishConfirm(confs[i])})
        passed_count ==
            BoolToInt(has_ict_concept) + BoolToInt(has_trend)
            + BoolToInt(has_structure) + BoolToInt(directional_alignment)
    IN  [has_ict_concept |-> has_ict_concept,
         has_trend |-> has_trend,
         has_structure |-> has_structure,
         directional_alignment |-> directional_alignment,
         passed |-> passed_count >= 3]

_perform_quality_checks(confs, dir) ==
    LET has_ict_concept == (\E i \in DOMAIN confs : IsIct(confs[i]))
        has_trend == (\E i \in DOMAIN confs : IsTrend(confs[i]))
        has_structure == (\E i \in DOMAIN confs : IsStructure(confs[i]))
        bullish_confirms == Cardinality({i \in DOMAIN confs : IsBullishConfirm(confs[i])})
        bearish_confirms == Cardinality({i \in DOMAIN confs : IsBearishConfirm(confs[i])})
        directional_alignment ==
            IF dir = BUY
            THEN bullish_confirms > bearish_confirms
            ELSE bearish_confirms > bullish_confirms
        passed_count ==
            BoolToInt(has_ict_concept) + BoolToInt(has_trend)
            + BoolToInt(has_structure) + BoolToInt(directional_alignment)
    IN  [has_ict_concept |-> has_ict_concept,
         has_trend |-> has_trend,
         has_structure |-> has_structure,
         directional_alignment |-> directional_alignment,
         passed |-> passed_count >= 2]

\* The loop `for conf in confirmations: weighted_score += weight`.
RECURSIVE WeightedScore(_)
WeightedScore(confs) ==
    IF confs = <<>> THEN 0
    ELSE WeightOf(Head(confs)) + WeightedScore(Tail(confs))

validate_confirmations(confs, dir) ==
    IF confs = <<>>
    THEN [is_valid |-> FALSE, count |-> 0, confidence |-> 0]
    ELSE
      LET weighted_score == WeightedScore(confs)
          unique_count == Cardinality(Range(confs))
          \* min(weighted_score / 10.0, 1.0), in hundredths
          confidence == Min(weighted_score, 100)
          is_valid0 == unique_count >= min_confirmations
                       /\ weighted_score >= min_weighted_score
          quality_checks == _perform_quality_checks(confs, dir)
          is_valid == IF ~quality_checks.passed THEN FALSE ELSE is_valid0
      IN  [is_valid |-> is_valid,
           count |-> unique_count,
           weighted_score |-> weighted_score,
           confidence |-> confidence,
           quality_checks |-> quality_checks]

\* Labels the callers are enumerated over: table labels of every keyword
\* family, and the label built for the LONDON_CLOSE kill zone, which the
\* table does not hold.
ModelLabels ==
    {"TREND_ALIGNED", "ICT_BULLISH_ORDER_BLOCK", "STRONG_SUPPORT_LEVEL",
     "STRONG_RESISTANCE_LEVEL", "ICT_BEARISH_FVG", "MOMENTUM_STRONG",
     "CANDLESTICK_PATTERN", "ICT_KILL_ZONE_LONDON_CLOSE"}

MaxConfirmations == 4

ConfInit ==
    /\ confirmations = <<>>
    /\ direction \in {BUY, SELL}
    /\ validation = NoResult
    /\ TPIdle
    /\ PosIdle
    /\ IctIdle
    /\ GenIdle
    /\ EqIdle
    /\ RestIdle

\* The caller appends one more label to the list it will hand in.
AppendConfirmation ==
    /\ validation = NoResult
    /\ Len(confirmations) < MaxConfirmations
    /\ \E l \in ModelLabels : confirmations' = Append(confirmations, l)
    /\ UNCHANGED <<direction, validation>>
    /\ UNCHANGED NotConf

ValidateConfirmations ==
    /\ validation = NoResult
    /\ validation' = validate_confirmations(confirmations, direction)
    /\ UNCHANGED <<confirmations, direction>>
    /\ UNCHANGED NotConf

ConfNext == AppendConfirmation \/ ValidateConfirmations

SpecConf == ConfInit /\ [][ConfNext]_vars

\* C1: is_valid is true exactly when there are at least 3 distinct labels,
\* the listed weights (0.5 for a label outside the table) sum to at least
\* 3.0, and at least 2 of the four quality checks are true; the labels
\* TREND_ALIGNED, ICT_BULLISH_ORDER_BLOCK, STRONG_SUPPORT_LEVEL with BUY
\* are valid with score 3.9 and count 3.
C1_ListedWeight ==
    LET w(i) == IF confirmations[i] \in DOMAIN CONFIRMATION_WEIGHTS
                THEN CONFIRMATION_WEIGHTS[confirmations[i]] ELSE 5
        RECURSIVE S(_)
        S(n) == IF n = 0 THEN 0 ELSE w(n) + S(n - 1)
    IN  S(Len(confirmations))

C1_ChecksTrue ==
    LET q == _perform_quality_checks(confirmations, direction)
    IN  Cardinality({k \in {"has_ict_concept", "has_trend", "has_structure",
                            "directional_alignment"} : q[k]})

C1_Example ==
    /\ confirmations = <<"TREND_ALIGNED", "ICT_BULLISH_ORDER_BLOCK",
                         "STRONG_SUPPORT_LEVEL">>
    /\ direction = BUY

C1_ValidIff ==
    validation # NoResult =>
        /\ validation.is_valid =
              (/\ Cardinality(Range(confirmations)) >= 3
               /\ C1_ListedWeight >= 30
               /\ C1_ChecksTrue >= 2)
        /\ C1_Example =>
              /\ validation.is_valid
              /\ validation.weighted_score = 39
              /\ validation.count = 3

C1_Witness == validation # NoResult /\ C1_Example /\ validation.is_valid

(***************************************************************************)
(* Trade construction: take-profit targets.                                *)
(* Prices are in points of 0.000001; round(x, 5) keeps multiples of 10.    *)
(***************************************************************************)
\* settings.PIP_VALUE = 0.01, in points
PIP_VALUE == 10000

\* Python round(x, 5).  The inputs never sit on a tie (x % 10 = 5).
Round5(x) == ((x + 5) \div 10) * 10

EXTENSION_LEVELS == {"1.272", "1.414", "1.618", "2.000", "2.618"}

\* ratio - 1, in thousandths
RatioMinusOne(key) ==
    CASE key = "1.272" -> 272
      [] key = "1.414" -> 414
      [] key = "1.618" -> 618
      [] key = "2.000" -> 1000
      [] key = "2.618" -> 1618

\* FibonacciAnalysis.calculate_extension: the 'levels' dictionary, ratio
\* key -> price.  Swing distances are multiples of 1000 points, so
\* diff * (ratio - 1) is the whole number (diff / 1000) * thousandths.
calculate_extension(swing_high, swing_low) ==
    LET uptrend == swing_high > swing_low
        diff == IF uptrend THEN swing_high - swing_low
                ELSE swing_low - swing_high
        hi == IF uptrend THEN swing_high ELSE swing_low
        lo == IF uptrend THEN swing_low ELSE swing_high
    IN  [key \in EXTENSION_LEVELS |->
            IF uptrend
            THEN hi + (diff \div 1000) * RatioMinusOne(key)
            ELSE lo - (diff \div 1000) * RatioMinusOne(key)]

\* levels[:n]
Take(s, n) == SubSeq(s, 1, Min(n, Len(s)))

\* The first price of the list that satisfies the side test, as a list of
\* zero or one target (`for ...: if ...: append; break`).
RECURSIVE FirstBeyond(_, _, _)
FirstBeyond(levels, e, dir) ==
    IF levels = <<>> THEN <<>>
    ELSE IF (dir = BUY /\ Head(levels) > e) \/ (dir # BUY /\ Head(levels) < e)
         THEN <<[price |-> Round5(Head(levels)),
                 type |-> IF dir = BUY THEN "Major Resistance"
                          ELSE "Major Support",
                 percentage |-> 20]>>
         ELSE FirstBeyond(Tail(levels), e, dir)

\* `while len(take_profits) < 3`: extend 50 pips beyond the last target.
RECURSIVE EnsureThree(_, _, _)
EnsureThree(tps, e, dir) ==
    IF Len(tps) >= 3 THEN tps
    ELSE LET last_tp == IF tps # <<>> THEN tps[Len(tps)].price ELSE e
             new_tp == IF dir = BUY THEN last_tp + 50 * PIP_VALUE
                       ELSE last_tp - 50 * PIP_VALUE
         IN  EnsureThree(Append(tps, [price |-> Round5(new_tp),
                                      type |-> "Extension",
                                      percentage |-> 10]), e, dir)

_calculate_take_profits(e, dir, fib_levels, sr) ==
    LET beyond(p) == IF dir = BUY THEN p > e ELSE p < e
        tp1 == fib_levels["1.272"]
        tp2 == fib_levels["1.618"]
        t1 == IF "1.272" \in DOMAIN fib_levels /\ beyond(tp1)
              THEN <<[price |-> Round5(tp1), type |-> "Fib 1.272",
                      percentage |-> 50]>>
              ELSE <<>>
        t2 == IF "1.618" \in DOMAIN fib_levels /\ beyond(tp2)
              THEN <<[price |-> Round5(tp2), type |-> "Fib 1.618 (Golden)",
                      percentage |-> 30]>>
              ELSE <<>>
        t3 == FirstBeyond(Take(IF dir = BUY THEN sr.resistance ELSE sr.support,
                               3), e, dir)
    IN  Take(EnsureThree(t1 \o t2 \o t3, e, dir), 3)

\* Inputs of the construction: a $20 entry, swings on both sides of it,
\* and structural levels below, just above, and far from the entry.
EntryPrice == 20000000

SwingPairs ==
    {<<EntryPrice + 1000000, EntryPrice - 1000000>>,
     <<EntryPrice - 268, EntryPrice - 1268>>,
     <<EntryPrice - 3000000, EntryPrice - 4000000>>,
     <<EntryPrice + 1000000, EntryPrice + 1000000>>,
     <<EntryPrice, EntryPrice>>}

LevelPrices ==
    {EntryPrice - 5000000, EntryPrice - 300000, EntryPrice + 300000,
     EntryPrice + 5000000}

MaxLevels == 2

TPInit ==
    /\ entry = EntryPrice
    /\ trade_direction \in {BUY, SELL}
    /\ swing \in SwingPairs
    /\ sr_levels = [support |-> <<>>, resistance |-> <<>>]
    /\ take_profits = NoResult
    /\ ConfIdle
    /\ PosIdle
    /\ IctIdle
    /\ GenIdle
    /\ EqIdle
    /\ RestIdle

\* SupportResistanceAnalysis ranks one more resistance level.
AddResistance ==
    /\ take_profits = NoResult
    /\ Len(sr_levels.resistance) < MaxLevels
    /\ \E p \in LevelPrices :
          sr_levels' = [sr_levels EXCEPT !.resistance = Append(@, p)]
    /\ UNCHANGED <<entry, trade_direction, swing, take_profits>>
    /\ UNCHANGED NotTP

\* SupportResistanceAnalysis ranks one more support level.
AddSupport ==
    /\ take_profits = NoResult
    /\ Len(sr_levels.support) < MaxLevels
    /\ \E p \in LevelPrices :
          sr_levels' = [sr_levels EXCEPT !.support = Append(@, p)]
    /\ UNCHANGED <<entry, trade_direction, swing, take_profits>>
    /\ UNCHANGED NotTP

CalculateTakeProfits ==
    /\ take_profits = NoResult
    /\ take_profits' =
          _calculate_take_profits(entry, trade_direction,
                                  calculate_extension(swing[1], swing[2]),
                                  sr_levels)
    /\ UNCHANGED <<entry, trade_direction, swing, sr_levels>>
    /\ UNCHANGED NotTP

TPNext == AddResistance \/ AddSupport \/ CalculateTakeProfits

SpecTP == TPInit /\ [][TPNext]_vars

\* C2: for a BUY the three targets are strictly increasing and all above
\* the entry; for a SELL strictly decreasing and all below the entry.
C2_TargetsOrdered ==
    take_profits # NoResult =>
        LET p(i) == take_profits[i].price
        IN  IF trade_direction = BUY
            THEN entry < p(1) /\ p(1) < p(2) /\ p(2) < p(3)
            ELSE entry > p(1) /\ p(1) > p(2) /\ p(2) > p(3)

\* C24: the percentage allocations of the three returned targets sum to
\* 100, also when one or more of the targets are synthesized extensions.
C24_AllocationsSumTo100 ==
    take_profits # NoResult =>
        /\ Len(take_profits) = 3
        /\ take_profits[1].percentage + take_profits[2].percentage
               + take_profits[3].percentage = 100

(***************************************************************************)
(* Position sizing.  A position size is counted in 1/5000 of a standard   *)
(* lot: 0.01 lot is 50 units and account_balance / 5000 lots is            *)
(* account_balance units.                                                  *)
(***************************************************************************)
Abs(x) == IF x < 0 THEN -x ELSE x

\* The integer nearest to n / d (n >= 0, d > 0), an exact tie going to the
\* even neighbour as Python's round does on an exactly representable tie.
RoundDiv(n, d) ==
    LET q == n \div d
        r == n % d
    IN  IF 2 * r > d \/ (2 * r = d /\ q % 2 = 1) THEN q + 1 ELSE q

\* 0.01 lot, in units of 1/5000 lot
MinLots == 50

\* one hundredth of a lot, in units of 1/5000 lot
LotStep == 50

\* Sizing that applies the 0.01-lot floor after the balance cap.
calculate_position_size_floor_last(e, sl, balance, pct) ==
    LET lots0 == RoundDiv(100 * balance * pct, Abs(e - sl)) * LotStep
        lots1 == IF lots0 > balance THEN balance ELSE lots0
        lots2 == IF lots1 < MinLots THEN MinLots ELSE lots1
    IN  [position_size |-> lots2,
         account_balance |-> balance]

calculate_position_size(e, sl, balance, pct) ==
    LET stop_distance == Abs(e - sl)
        \* lots = risk_amount / (stop_distance_pips * 1.0), with
        \* risk_amount = balance * (pct / 100) and
        \* stop_distance_pips = stop_distance / PIP_VALUE;
        \* round(lots, 2) counted in hundredths of a lot
        lots_rounded == RoundDiv(100 * balance * pct, stop_distance)
        lots0 == lots_rounded * LotStep
        lots1 == IF lots0 < MinLots THEN MinLots ELSE lots0
        max_lots == balance
        lots2 == IF lots1 > max_lots THEN max_lots ELSE lots1
    IN  [position_size |-> lots2,
         account_balance |-> balance]

Balances == {25, 50, 1000, 10000}

RiskPercentages == {50, 100, 200}

\* stop distances in pips, on either side of the entry
StopPips == {15, 30, 150, 300, 1600}

PosInit ==
    /\ entry = EntryPrice
    /\ account_balance \in Balances
    /\ risk_percentage \in RiskPercentages
    /\ stop_loss = EntryPrice
    /\ risk_params = NoResult
    /\ LevelsIdle
    /\ ConfIdle
    /\ IctIdle
    /\ GenIdle
    /\ EqIdle
    /\ RestIdle

\* The trade constructor fixes the stop below (BUY) or above (SELL) entry.
SetStopLoss ==
    /\ risk_params = NoResult
    /\ stop_loss = entry
    /\ \E d \in StopPips, side \in {-1, 1} :
          stop_loss' = entry + side * d * PIP_VALUE
    /\ UNCHANGED <<entry, account_balance, risk_percentage, risk_params>>
    /\ UNCHANGED NotPos

CalculatePositionSize ==
    /\ risk_params = NoResult
    /\ stop_loss # entry
    /\ risk_params' = calculate_position_size(entry, stop_loss,
                                              account_balance, risk_percentage)
    /\ UNCHANGED <<entry, account_balance, risk_percentage, stop_loss>>
    /\ UNCHANGED NotPos

PosNext == SetStopLoss \/ CalculatePositionSize

SpecPos == PosInit /\ [][PosNext]_vars

\* The rounded lot count of the state, stated without the rounding
\* operator: a whole number of hundredths h within half a hundredth of
\* risk_amount / stop_distance_pips.
C3_IsRounded(h) ==
    LET n == 100 * account_balance * risk_percentage
        d == Abs(entry - stop_loss)
    IN  h >= 0 /\ 2 * Abs(n - h * d) <= d

C3_Hundredths ==
    0..((100 * account_balance * risk_percentage)
            \div Abs(entry - stop_loss) + 1)

C3_Example ==
    /\ account_balance = 10000
    /\ risk_percentage = 200
    /\ Abs(entry - stop_loss) = 300 * PIP_VALUE

risk_amount(rp, e, sl) ==
    RoundDiv(rp.position_size * (Abs(e - sl) \div PIP_VALUE), 50)

\* C25: the reported risk_amount never exceeds the risk budget
\* account_balance * risk_percentage / 100, for every balance, risk
\* percentage and non-zero stop distance.  The budget in cents is
\* account_balance * risk_percentage / 100 with the percentage counted in
\* hundredths, so the comparison is made on 100 times both sides.
C25_RiskWithinBudget ==
    risk_params # NoResult =>
        100 * risk_amount(risk_params, entry, stop_loss)
            <= account_balance * risk_percentage

(***************************************************************************)
(* ICT structure detectors.  A bar is [open, high, low, close] in points;  *)
(* bar shapes are whole multiples of 0.125 dollars, which binary floats    *)
(* hold exactly.  Indices are pandas positions: df.iloc[i] is Bar(i).      *)
(***************************************************************************)
Bar(i) == bars[i + 1]

\* self.df['close'].iloc[-1]
LastClose == bars[Len(bars)].close

\* df.tail(n), as the set of pandas positions it keeps
TailIdx(n) == {i \in 0..(Len(bars) - 1) : i >= Len(bars) - n}

\* list[-n:]
LastN(s, n) == IF Len(s) <= n THEN s ELSE SubSeq(s, Len(s) - n + 1, Len(s))

\* settings.ORDER_BLOCK_LOOKBACK
ORDER_BLOCK_LOOKBACK == 50

\* settings.FVG_MIN_SIZE_PIPS
FVG_MIN_SIZE_PIPS == 50

BULLISH_OB == "BULLISH_ORDER_BLOCK"

BEARISH_OB == "BEARISH_ORDER_BLOCK"

\* (high - low) summed over df.iloc[i-20:i]; avg_range is this sum / 20.
RECURSIVE RangeSum(_, _)
RangeSum(from, to) ==
    IF from >= to THEN 0
    ELSE (Bar(from).high - Bar(from).low) + RangeSum(from + 1, to)

\* A strength test against the plain average range (factor 1.0).
StrongMove_1x(i) ==
    20 * Abs(Bar(i + 1).close - Bar(i + 1).open) > RangeSum(i - 20, i)

\* move_size > avg_range * 1.5, with avg_range = RangeSum / 20
StrongMove(i) ==
    40 * Abs(Bar(i + 1).close - Bar(i + 1).open) > 3 * RangeSum(i - 20, i)

OrderBlockAt(i, type) ==
    [type |-> type, timestamp |-> i,
     high |-> Bar(i).high, low |-> Bar(i).low,
     open |-> Bar(i).open, close |-> Bar(i).close,
     strength |-> <<20 * Abs(Bar(i + 1).close - Bar(i + 1).open),
                    RangeSum(i - 20, i)>>,
     tested |-> FALSE]

\* The loop `for i in range(lookback, len(self.df) - 1)`.
RECURSIVE OrderBlocksFrom(_)
OrderBlocksFrom(i) ==
    IF i >= Len(bars) - 1 THEN <<>>
    ELSE LET current == Bar(i)
             next_candle == Bar(i + 1)
             found ==
                IF /\ current.close < current.open
                   /\ next_candle.close > next_candle.open
                   /\ StrongMove(i)
                THEN <<OrderBlockAt(i, BULLISH_OB)>>
                ELSE IF /\ current.close > current.open
                        /\ next_candle.close < next_candle.open
                        /\ StrongMove(i)
                     THEN <<OrderBlockAt(i, BEARISH_OB)>>
                     ELSE <<>>
         IN  found \o OrderBlocksFrom(i + 1)

identify_order_blocks ==
    IF Len(bars) < ORDER_BLOCK_LOOKBACK THEN <<>>
    ELSE LastN(OrderBlocksFrom(ORDER_BLOCK_LOOKBACK), 10)

\* The loop `for i in range(2, len(self.df))`; every gap starts unfilled.
RECURSIVE GapsFrom(_)
GapsFrom(i) ==
    IF i >= Len(bars) THEN <<>>
    ELSE LET candle1 == Bar(i - 2)
             candle3 == Bar(i)
             min_gap_price == FVG_MIN_SIZE_PIPS * PIP_VALUE
             found ==
                IF candle3.low > candle1.high
                THEN IF candle3.low - candle1.high >= min_gap_price
                     THEN <<[type |-> "BULLISH_FVG", timestamp |-> i,
                             gap_high |-> candle3.low,
                             gap_low |-> candle1.high,
                             gap_size |-> candle3.low - candle1.high,
                             filled |-> FALSE]>>
                     ELSE <<>>
                ELSE IF candle3.high < candle1.low
                     THEN IF candle1.low - candle3.high >= min_gap_price
                          THEN <<[type |-> "BEARISH_FVG", timestamp |-> i,
                                  gap_high |-> candle1.low,
                                  gap_low |-> candle3.high,
                                  gap_size |-> candle1.low - candle3.high,
                                  filled |-> FALSE]>>
                          ELSE <<>>
                     ELSE <<>>
         IN  found \o GapsFrom(i + 1)

\* `for fvg in fvgs: if gap_low <= current_price <= gap_high: filled = True`
MarkFilled(gaps, current_price) ==
    [k \in DOMAIN gaps |->
        IF gaps[k].gap_low <= current_price /\ current_price <= gaps[k].gap_high
        THEN [gaps[k] EXCEPT !.filled = TRUE]
        ELSE gaps[k]]

\* A filter that keeps every gap, filled or not.
Unfilled_keep_all(gaps) == gaps

\* [fvg for fvg in fvgs if not fvg['filled']]
RECURSIVE Unfilled(_)
Unfilled(gaps) ==
    IF gaps = <<>> THEN <<>>
    ELSE IF ~Head(gaps).filled
         THEN <<Head(gaps)>> \o Unfilled(Tail(gaps))
         ELSE Unfilled(Tail(gaps))

\* The loop of identify_breaker_blocks.  The retest test applies `and` to
\* two pandas Series, which asks for the truth value of a Series; pandas
\* raises ValueError for that whatever the Series holds.
RECURSIVE BreakersFrom(_, _)
BreakersFrom(obs, current_price) ==
    IF obs = <<>> THEN <<>>
    ELSE LET ob == Head(obs)
             reaches_retest ==
                \/ ob.type = BULLISH_OB /\ current_price < ob.low
                \/ ob.type = BEARISH_OB /\ current_price > ob.high
         IN  IF reaches_retest THEN "ValueError"
             ELSE BreakersFrom(Tail(obs), current_price)

identify_breaker_blocks ==
    IF order_blocks = <<>> THEN <<>>
    ELSE BreakersFrom(order_blocks, LastClose)

\* Bar series handed to the engine: a run of quiet bars, optionally
\* followed by a run of strong bars, each bar opening at the last close.
BasePrice == 50000000

Wick == 125000

QuietBar(p) == [open |-> p, high |-> p + Wick, low |-> p - Wick, close |-> p]

\* A bar that opens at p and closes body points away.
MoveBar(p, body) ==
    [open |-> p, close |-> p + body,
     high |-> Max(p, p + body) + Wick, low |-> Min(p, p + body) - Wick]

StrongBody == 3000000

SmallBody == 500000

Bodies == {StrongBody, -StrongBody, SmallBody, -SmallBody}

RECURSIVE Run(_, _, _)
Run(p, bodies, n) ==
    IF n = 0 THEN <<>>
    ELSE <<MoveBar(p, bodies[1])>>
         \o Run(p + bodies[1], Tail(bodies) \o <<bodies[1]>>, n - 1)

QuietRun == [i \in 1..ORDER_BLOCK_LOOKBACK |-> QuietBar(BasePrice)]

\* enough strong bars for more than 10 blocks or gaps
RunLength == 13

Prefixes ==
    {<<>>,
     QuietRun,
     QuietRun \o Run(BasePrice, <<-StrongBody, StrongBody>>, RunLength),
     QuietRun \o Run(BasePrice, <<StrongBody>>, RunLength),
     QuietRun \o Run(BasePrice, <<-StrongBody>>, RunLength)}

MaxTail == 3

PrefixLen == IF Len(bars) >= ORDER_BLOCK_LOOKBACK + RunLength
             THEN ORDER_BLOCK_LOOKBACK + RunLength
             ELSE IF Len(bars) >= ORDER_BLOCK_LOOKBACK
                  THEN ORDER_BLOCK_LOOKBACK ELSE 0

IctInit ==
    /\ bars \in Prefixes
    /\ ict_pc = "build"
    /\ order_blocks = <<>>
    /\ fvgs = <<>>
    /\ fair_value_gaps = <<>>
    /\ breaker_blocks = <<>>
    /\ ict_error = "none"
    /\ ConfIdle
    /\ TPIdle
    /\ PosIdle
    /\ GenIdle
    /\ EqIdle
    /\ RestIdle

\* The market-data collaborator delivers one more bar.
AppendBar ==
    /\ ict_pc = "build"
    /\ Len(bars) - PrefixLen < MaxTail
    /\ \E body \in Bodies :
          bars' = Append(bars, MoveBar(IF bars = <<>> THEN BasePrice
                                       ELSE LastClose, body))
    /\ UNCHANGED <<ict_pc, order_blocks, fvgs, fair_value_gaps,
                   breaker_blocks, ict_error>>
    /\ UNCHANGED NotIct

IdentifyOrderBlocks ==
    /\ ict_pc = "build"
    /\ order_blocks' = identify_order_blocks
    /\ ict_pc' = "fair_value_gaps"
    /\ UNCHANGED <<bars, fvgs, fair_value_gaps, breaker_blocks, ict_error>>
    /\ UNCHANGED NotIct

\* identify_fair_value_gaps; `.iloc[-1]` on an empty frame is an IndexError.
IdentifyFairValueGaps ==
    /\ ict_pc = "fair_value_gaps"
    /\ IF bars = <<>>
       THEN /\ ict_error' = "IndexError"
            /\ ict_pc' = "raised"
            /\ UNCHANGED <<fvgs, fair_value_gaps>>
       ELSE /\ fvgs' = MarkFilled(GapsFrom(2), LastClose)
            /\ fair_value_gaps' = LastN(Unfilled(fvgs'), 10)
            /\ ict_pc' = "breaker_blocks"
            /\ UNCHANGED ict_error
    /\ UNCHANGED <<bars, order_blocks, breaker_blocks>>
    /\ UNCHANGED NotIct

IdentifyBreakerBlocks ==
    /\ ict_pc = "breaker_blocks"
    /\ IF identify_breaker_blocks = "ValueError"
       THEN /\ ict_error' = "ValueError"
            /\ ict_pc' = "raised"
            /\ UNCHANGED breaker_blocks
       ELSE /\ breaker_blocks' = identify_breaker_blocks
            /\ ict_pc' = "done"
            /\ UNCHANGED ict_error
    /\ UNCHANGED <<bars, order_blocks, fvgs, fair_value_gaps>>
    /\ UNCHANGED NotIct

\* identify_fair_value_gaps called once more on the same object.
ReidentifyFairValueGaps ==
    /\ ict_pc = "done"
    /\ fvgs' = MarkFilled(GapsFrom(2), LastClose)
    /\ fair_value_gaps' = LastN(Unfilled(fvgs'), 10)
    /\ ict_pc' = "reevaluated"
    /\ UNCHANGED <<bars, order_blocks, breaker_blocks, ict_error>>
    /\ UNCHANGED NotIct

IctNext ==
    \/ AppendBar
    \/ IdentifyOrderBlocks
    \/ IdentifyFairValueGaps
    \/ IdentifyBreakerBlocks
    \/ ReidentifyFairValueGaps

SpecIct == IctInit /\ [][IctNext]_vars
\* The stages of full_ict_analysis that have returned.
OrderBlocksDone == ict_pc \notin {"idle", "build"}

GapsDone ==
    \/ ict_pc \in {"breaker_blocks", "done", "reevaluated"}
    \/ ict_pc = "raised" /\ ict_error = "ValueError"

BreakersDone ==
    \/ ict_pc \in {"done", "reevaluated"}
    \/ ict_pc = "raised" /\ ict_error = "ValueError"

\* C4: identify_breaker_blocks returns without raising, and its list holds
\* a bearish breaker for a retained bullish order block exactly when the
\* latest close is below the block's low and some bar of the last 10 has
\* low <= block high and close < block low; symmetrically for a bearish
\* order block and a bullish breaker.
C4_BreakersAsSpecified ==
    BreakersDone =>
        /\ ict_error = "none"
        /\ \A k \in DOMAIN order_blocks :
              LET ob == order_blocks[k]
                  listed(t) == \E b \in DOMAIN breaker_blocks :
                                  /\ breaker_blocks[b].type = t
                                  /\ breaker_blocks[b].timestamp = ob.timestamp
              IN  /\ ob.type = BULLISH_OB =>
                        (listed("BEARISH_BREAKER") <=>
                            /\ LastClose < ob.low
                            /\ \E j \in TailIdx(10) :
                                  Bar(j).low <= ob.high /\ Bar(j).close < ob.low)
                  /\ ob.type = BEARISH_OB =>
                        (listed("BULLISH_BREAKER") <=>
                            /\ LastClose > ob.high
                            /\ \E j \in TailIdx(10) :
                                  Bar(j).high >= ob.low /\ Bar(j).close > ob.high)

\* C8: once identify_fair_value_gaps has run, a detected gap is marked
\* filled exactly when the latest close lies in [gap_low, gap_high]; the
\* list kept holds only unfilled gaps, each with gap_low < gap_high and a
\* size of at least the configured minimum, and is the 10 most recent of
\* them; running the detector again on the same series keeps the list.
C8_GapsKept ==
    GapsDone =>
        /\ \A k \in DOMAIN fvgs :
              fvgs[k].filled <=>
                 (fvgs[k].gap_low <= bars[Len(bars)].close
                  /\ bars[Len(bars)].close <= fvgs[k].gap_high)
        /\ \A k \in DOMAIN fair_value_gaps :
              LET g == fair_value_gaps[k]
              IN  /\ ~g.filled
                  /\ g.gap_low < g.gap_high
                  /\ g.gap_size = g.gap_high - g.gap_low
                  /\ g.gap_size >= 50 * PIP_VALUE
                  /\ \E j \in DOMAIN fvgs : fvgs[j] = g
        /\ Len(fair_value_gaps) <= 10
        /\ \A k \in 1..(Len(fair_value_gaps) - 1) :
              fair_value_gaps[k].timestamp < fair_value_gaps[k + 1].timestamp
        /\ \A j \in DOMAIN fvgs :
              (~fvgs[j].filled /\ fvgs[j] \notin Range(fair_value_gaps)) =>
                  /\ Len(fair_value_gaps) = 10
                  /\ fvgs[j].timestamp < fair_value_gaps[1].timestamp

C8_Reevaluation ==
    (ict_pc = "done" /\ ict_pc' = "reevaluated") =>
        fair_value_gaps' = fair_value_gaps /\ fvgs' = fvgs

C8_FilledAndKept == [](C8_GapsKept) /\ [][C8_Reevaluation]_vars

C8_Witness ==
    /\ ict_pc = "reevaluated"
    /\ \E k \in DOMAIN fvgs : fvgs[k].filled
    /\ Cardinality({k \in DOMAIN fvgs : ~fvgs[k].filled}) > 10
    /\ Len(fair_value_gaps) = 10

\* The detection rule at pandas position i, written on the series itself.
C9_MeanRange20(i) ==
    LET RECURSIVE S(_)
        S(j) == IF j < i - 20 THEN 0
                ELSE (bars[j + 1].high - bars[j + 1].low) + S(j - 1)
    IN  S(i - 1)

C9_BullishRule(i) ==
    /\ bars[i + 1].close < bars[i + 1].open
    /\ bars[i + 2].close > bars[i + 2].open
    /\ 2 * 20 * (bars[i + 2].close - bars[i + 2].open) > 3 * C9_MeanRange20(i)

C9_BearishRule(i) ==
    /\ bars[i + 1].close > bars[i + 1].open
    /\ bars[i + 2].close < bars[i + 2].open
    /\ 2 * 20 * (bars[i + 2].open - bars[i + 2].close) > 3 * C9_MeanRange20(i)

\* C9: every order block returned is tagged bullish only if bar i closes
\* below its open and bar i+1 closes above its open with a body larger
\* than 1.5 times the mean range of the 20 bars before i, bearish only in
\* the mirrored case; no bar is tagged with both polarities; the result is
\* the at most 10 most recent blocks in index order.
C9_PolarityAndRecency ==
    OrderBlocksDone =>
        /\ \A k \in DOMAIN order_blocks :
              LET ob == order_blocks[k]
              IN  /\ ob.type \in {BULLISH_OB, BEARISH_OB}
                  /\ ob.timestamp \in 50..(Len(bars) - 2)
                  /\ ob.type = BULLISH_OB => C9_BullishRule(ob.timestamp)
                  /\ ob.type = BEARISH_OB => C9_BearishRule(ob.timestamp)
        /\ Len(order_blocks) <= 10
        /\ \A k \in 1..(Len(order_blocks) - 1) :
              order_blocks[k].timestamp < order_blocks[k + 1].timestamp
        /\ \A i \in 50..(Len(bars) - 2) :
              ((C9_BullishRule(i) \/ C9_BearishRule(i))
               /\ \A k \in DOMAIN order_blocks : order_blocks[k].timestamp # i)
              => /\ Len(order_blocks) = 10
                 /\ i < order_blocks[1].timestamp

C9_Witness ==
    /\ OrderBlocksDone
    /\ Len(order_blocks) = 10
    /\ \E k \in DOMAIN order_blocks : order_blocks[k].type = BULLISH_OB
    /\ \E k \in DOMAIN order_blocks : order_blocks[k].type = BEARISH_OB
    /\ \E i \in 50..(Len(bars) - 2) :
          /\ C9_BullishRule(i) \/ C9_BearishRule(i)
          /\ i < order_blocks[1].timestamp

(***************************************************************************)
(* MultiTimeframeAnalysis                                                  *)
(***************************************************************************)
BULLISH == "BULLISH"

BEARISH == "BEARISH"

RANGING == "RANGING"

\* An exception leaving a function, in place of its return value.
Raised(e) == [error |-> e]

IsRaised(r) == "error" \in DOMAIN r

\* Python None where a timeframe name is expected.
NoTimeframe == "None"

\* The keys in the order _fetch_all_timeframes inserts them.
TimeframeKeys == <<"5m", "1h", "4h", "15m">>

\* self.timeframes = list(data_dict.keys())
Keys(d) == SelectSeq(TimeframeKeys, LAMBDA tf : d[tf] # Missing)

\* The keys of analysis['timeframes']: `if tf not in self.data or
\* self.data[tf] is None: continue`.
Analysed(d) == SelectSeq(Keys(d), LAMBDA tf : d[tf] # NoResult)

\* ICTAnalysis(df).full_ict_analysis() on a frame: the order blocks it
\* retains, unless identify_breaker_blocks raises on them.
full_ict_analysis(frame) ==
    IF frame.order_blocks # <<>>
       /\ BreakersFrom(frame.order_blocks, frame.close) = "ValueError"
    THEN Raised("ValueError")
    ELSE [order_blocks |-> frame.order_blocks]

Count(seq, v) == Cardinality({i \in DOMAIN seq : seq[i] = v})

\* A confidence is the fraction <<numerator, denominator>>.
Fraction(n, d) == <<n, d>>

AtLeast70(f) == 10 * f[1] >= 7 * f[2]

_check_timeframe_alignment_06(trends) ==
    LET bullish_count == Count(trends, BULLISH)
        bearish_count == Count(trends, BEARISH)
        ranging_count == Count(trends, RANGING)
        total == Len(trends)
        result(status, confidence) ==
            [status |-> status, confidence |-> confidence,
             bullish_count |-> bullish_count,
             bearish_count |-> bearish_count,
             ranging_count |-> ranging_count]
    IN  IF 10 * bullish_count >= 6 * total
        THEN IF total = 0 THEN Raised("ZeroDivisionError")
             ELSE result("BULLISH_ALIGNED", Fraction(bullish_count, total))
        ELSE IF 10 * bearish_count >= 6 * total
             THEN result("BEARISH_ALIGNED", Fraction(bearish_count, total))
             ELSE result("NOT_ALIGNED", Fraction(1, 2))

\* `bullish_count >= total * 0.7`, then `bullish_count / total`: with no
\* trend at all the first test is 0 >= 0.0 and the division is 0 / 0.
_check_timeframe_alignment(trends) ==
    LET bullish_count == Count(trends, BULLISH)
        bearish_count == Count(trends, BEARISH)
        ranging_count == Count(trends, RANGING)
        total == Len(trends)
        result(status, confidence) ==
            [status |-> status, confidence |-> confidence,
             bullish_count |-> bullish_count,
             bearish_count |-> bearish_count,
             ranging_count |-> ranging_count]
    IN  IF 10 * bullish_count >= 7 * total
        THEN IF total = 0 THEN Raised("ZeroDivisionError")
             ELSE result("BULLISH_ALIGNED", Fraction(bullish_count, total))
        ELSE IF 10 * bearish_count >= 7 * total
             THEN result("BEARISH_ALIGNED", Fraction(bearish_count, total))
             ELSE result("NOT_ALIGNED", Fraction(1, 2))

\* `for tf in priority: if tf in timeframes_data: return tf`, then the
\* first key, then None.
FirstByPriority(priority, present) ==
    LET hits == SelectSeq(priority, LAMBDA tf : tf \in Range(present))
    IN  IF hits # <<>> THEN Head(hits)
        ELSE IF present # <<>> THEN Head(present)
        ELSE NoTimeframe

_get_primary_trend(d, present) ==
    LET tf == FirstByPriority(<<"1d", "4h", "1h", "15m">>, present)
    IN  IF tf = NoTimeframe THEN NoResult
        ELSE [timeframe |-> tf, trend |-> d[tf].trend]

_get_entry_timeframe(present) ==
    FirstByPriority(<<"5m", "15m", "1h">>, present)

\* The per-timeframe loop stops at the first frame whose ICT analysis
\* raises; the confluence zones take no part in any decision and are
\* left out of the result.
analyze_all_timeframes(d) ==
    LET present == Analysed(d)
        raising == {i \in DOMAIN present :
                       IsRaised(full_ict_analysis(d[present[i]]))}
        trends == [i \in DOMAIN present |-> d[present[i]].trend]
        alignment == _check_timeframe_alignment(trends)
    IN  IF raising # {} THEN Raised("ValueError")
        ELSE IF IsRaised(alignment) THEN alignment
        ELSE [timeframes |-> present,
              alignment |-> alignment,
              primary_trend |-> _get_primary_trend(d, present),
              entry_timeframe |-> _get_entry_timeframe(present)]

\* The direction of the recommendation; its confidence and reasons are
\* read by no caller and are left out.
get_trade_recommendation(d) ==
    LET analysis == analyze_all_timeframes(d)
    IN  IF IsRaised(analysis) THEN analysis
        ELSE [direction |->
                 IF analysis.alignment.status = "BULLISH_ALIGNED" THEN BUY
                 ELSE IF analysis.alignment.status = "BEARISH_ALIGNED"
                      THEN SELL
                      ELSE NEUTRAL,
              timeframe_alignment |-> analysis.alignment.status]

(***************************************************************************)
(* SignalGenerator                                                         *)
(***************************************************************************)
\* str.lower() on the headlines the feeds below carry.
Lower(title) ==
    CASE title = "Fed cuts" -> "fed cuts"
      [] title = "CPI jumps" -> "cpi jumps"
      [] title = "Gold calm" -> "gold calm"
      [] OTHER -> title

HIGH_IMPACT_KEYWORDS == {"rate", "fed", "cpi", "nfp", "inflation", "crisis"}

\* `bullish_count > bearish_count * 1.5` is 2 * bullish > 3 * bearish.
_check_news_alignment(news, dir) ==
    IF news = <<>>
    THEN [conflicting |-> FALSE, sentiment |-> "NEUTRAL", impact |-> "LOW"]
    ELSE LET recent == Take(news, 10)
             bullish_count ==
                Cardinality({i \in DOMAIN recent :
                                recent[i].sentiment = "BULLISH"})
             bearish_count ==
                Cardinality({i \in DOMAIN recent :
                                recent[i].sentiment = "BEARISH"})
             high_impact_count ==
                Cardinality({i \in DOMAIN recent :
                                \E kw \in HIGH_IMPACT_KEYWORDS :
                                   StrIn(kw, Lower(recent[i].title))})
             overall_sentiment ==
                IF 2 * bullish_count > 3 * bearish_count THEN "BULLISH"
                ELSE IF 2 * bearish_count > 3 * bullish_count THEN "BEARISH"
                ELSE "NEUTRAL"
         IN  [conflicting |->
                 \/ dir = BUY /\ overall_sentiment = "BEARISH"
                              /\ high_impact_count >= 2
                 \/ dir = SELL /\ overall_sentiment = "BULLISH"
                               /\ high_impact_count >= 2,
              sentiment |-> overall_sentiment,
              impact |-> IF high_impact_count >= 2 THEN "HIGH"
                         ELSE IF high_impact_count = 1 THEN "MEDIUM"
                         ELSE "LOW"]

\* f"ICT_KILL_ZONE_{zone_name.upper()}" for the zones of ICT_KILL_ZONES
KillZoneLabel(zone_name) ==
    CASE zone_name = "ASIAN" -> "ICT_KILL_ZONE_ASIAN"
      [] zone_name = "LONDON" -> "ICT_KILL_ZONE_LONDON"
      [] zone_name = "NEW_YORK" -> "ICT_KILL_ZONE_NEW_YORK"
      [] zone_name = "LONDON_CLOSE" -> "ICT_KILL_ZONE_LONDON_CLOSE"

\* A level of the first three within 20 pips of the price and of final
\* strength at least 0.6 (strengths in hundredths).
StrongLevelNear(levels, current_price) ==
    \E i \in DOMAIN Take(levels, 3) :
       /\ Abs(current_price - levels[i].price) <= 20 * PIP_VALUE
       /\ levels[i].final_strength >= 60

\* The list of labels, or AttributeError: an order block's 'type' is an
\* OrderBlockType member, which has no endswith, and the direction is BUY
\* or SELL whenever this is called.
_collect_confirmations(dir, ea, mtf) ==
    LET ict_result == ea.ict
        fvg2 == Take(ict_result.fair_value_gaps, 2)
        c1 == IF AtLeast70(mtf.alignment.confidence)
              THEN <<"MULTI_TIMEFRAME_ALIGNMENT">> ELSE <<>>
        c2 == IF \/ dir = BUY /\ ea.trend = BULLISH
                 \/ dir = SELL /\ ea.trend = BEARISH
              THEN <<"TREND_ALIGNED">> ELSE <<>>
        c3 == IF \/ dir = BUY /\ ea.momentum.bullish_count >= 2
                 \/ dir = SELL /\ ea.momentum.bearish_count >= 2
              THEN <<"MOMENTUM_STRONG">> ELSE <<>>
        c5 == IF dir = BUY /\ \E i \in DOMAIN fvg2 :
                                 StrIn("BULLISH", fvg2[i].type)
              THEN <<"ICT_BULLISH_FVG">>
              ELSE IF dir = SELL /\ \E i \in DOMAIN fvg2 :
                                       StrIn("BEARISH", fvg2[i].type)
                   THEN <<"ICT_BEARISH_FVG">>
                   ELSE <<>>
        c6 == IF ict_result.kill_zone.in_kill_zone
              THEN <<KillZoneLabel(ict_result.kill_zone.zone_name)>>
              ELSE <<>>
        c7 == IF dir = BUY
              THEN IF StrongLevelNear(ea.sr_levels.support, ea.close)
                   THEN <<"STRONG_SUPPORT_LEVEL">> ELSE <<>>
              ELSE IF StrongLevelNear(ea.sr_levels.resistance, ea.close)
                   THEN <<"STRONG_RESISTANCE_LEVEL">> ELSE <<>>
        c8 == IF ea.is_at_golden_ratio
              THEN <<"FIBONACCI_GOLDEN_RATIO">> ELSE <<>>
        c9 == IF ict_result.bos_levels
              THEN <<"MARKET_STRUCTURE_BREAK">> ELSE <<>>
        c10 == IF ict_result.swept THEN <<"LIQUIDITY_SWEEP">> ELSE <<>>
    IN  IF Take(ict_result.order_blocks, 2) # <<>> /\ dir \in {BUY, SELL}
        THEN Raised("AttributeError")
        ELSE [confirmations |->
                 c1 \o c2 \o c3 \o c5 \o c6 \o c7 \o c8 \o c9 \o c10]

\* The first gap of the trade's polarity that lies 10 to 50 pips from the
\* price on the entry side, as a list of zero or one gap.
RECURSIVE FirstEntryGap(_, _, _)
FirstEntryGap(gaps, current_price, dir) ==
    IF gaps = <<>> THEN <<>>
    ELSE LET fvg == Head(gaps)
             distance == IF dir = BUY THEN current_price - fvg.gap_low
                         ELSE fvg.gap_high - current_price
         IN  IF /\ StrIn(IF dir = BUY THEN "BULLISH" ELSE "BEARISH", fvg.type)
                /\ IF dir = BUY THEN fvg.gap_low < current_price
                   ELSE fvg.gap_high > current_price
                /\ 10 * PIP_VALUE <= distance
                /\ distance <= 50 * PIP_VALUE
             THEN <<fvg>>
             ELSE FirstEntryGap(Tail(gaps), current_price, dir)

\* With an order block in the result, `'BULLISH' in ob.get('type', '')`
\* tests membership in an OrderBlockType member and raises TypeError.
_calculate_entry_levels(current_price, dir, ict_result) ==
    LET gap == FirstEntryGap(ict_result.fair_value_gaps, current_price, dir)
    IN  IF ict_result.order_blocks # <<>> THEN Raised("TypeError")
        ELSE IF gap # <<>>
             THEN [entry |-> Round5((gap[1].gap_low + gap[1].gap_high) \div 2),
                   reason |-> IF dir = BUY THEN "ICT Bullish Fair Value Gap"
                              ELSE "ICT Bearish Fair Value Gap"]
             ELSE [entry |-> Round5(current_price),
                   reason |-> "Current market price"]

\* Stops 10 pips beyond the first two levels on the losing side, kept when
\* at least 15 pips from the entry; the tightest of them, else 30 pips.
_calculate_stop_loss(e, dir, ict_result, sr) ==
    LET levels == Take(IF dir = BUY THEN sr.support ELSE sr.resistance, 2)
        stop_candidates ==
            {IF dir = BUY THEN levels[i].price - 10 * PIP_VALUE
             ELSE levels[i].price + 10 * PIP_VALUE :
               i \in {j \in DOMAIN levels :
                         IF dir = BUY THEN levels[j].price < e
                         ELSE levels[j].price > e}}
        valid_stops ==
            {st \in stop_candidates :
                IF dir = BUY THEN e - st >= 15 * PIP_VALUE
                ELSE st - e >= 15 * PIP_VALUE}
        tightest ==
            IF dir = BUY
            THEN CHOOSE st \in valid_stops : \A o \in valid_stops : o <= st
            ELSE CHOOSE st \in valid_stops : \A o \in valid_stops : o >= st
    IN  IF ict_result.order_blocks # <<>> THEN Raised("TypeError")
        ELSE IF valid_stops # {} THEN [stop_loss |-> Round5(tightest)]
        ELSE [stop_loss |-> Round5(IF dir = BUY THEN e - 30 * PIP_VALUE
                                   ELSE e + 30 * PIP_VALUE)]

\* The prices of a list of ranked levels.
Prices(levels) == [i \in DOMAIN levels |-> levels[i].price]

\* A frame is known by what the analyses read from it: the trend
\* analyze_trend reports, the order blocks the detector retains, and the
\* last close.
Trends == {BULLISH, BEARISH, RANGING}

RetainedBlock ==
    [type |-> BULLISH_OB, low |-> EntryPrice - 30 * PIP_VALUE,
     high |-> EntryPrice - 20 * PIP_VALUE]

\* Frames without order blocks, with an intact block, and with a block
\* the last close has broken.
Frames ==
    [trend : Trends, order_blocks : {<<>>}, close : {EntryPrice}]
    \cup [trend : Trends, order_blocks : {<<RetainedBlock>>},
          close : {EntryPrice, EntryPrice - 40 * PIP_VALUE}]

\* The analyzed articles handed to the constructor.
NewsFeeds ==
    {<<>>,
     <<[sentiment |-> "BEARISH", title |-> "Fed cuts"],
       [sentiment |-> "BEARISH", title |-> "CPI jumps"]>>,
     <<[sentiment |-> "BULLISH", title |-> "Fed cuts"],
       [sentiment |-> "BULLISH", title |-> "CPI jumps"]>>,
     <<[sentiment |-> "BEARISH", title |-> "Fed cuts"],
       [sentiment |-> "BEARISH", title |-> "Gold calm"]>>}

\* What the indicators, the remaining ICT detectors, the level ranking and
\* the Fibonacci swing report on the entry frame.
QuietMarket ==
    [momentum |-> [bullish_count |-> 0, bearish_count |-> 0],
     fair_value_gaps |-> <<>>,
     kill_zone |-> [in_kill_zone |-> FALSE, zone_name |-> "None"],
     bos_levels |-> FALSE,
     swept |-> FALSE,
     sr_levels |-> [support |-> <<>>, resistance |-> <<>>],
     is_at_golden_ratio |-> FALSE,
     swing |-> <<EntryPrice + 100 * PIP_VALUE, EntryPrice - 100 * PIP_VALUE>>]

AsianSession ==
    [QuietMarket EXCEPT
        !.kill_zone = [in_kill_zone |-> TRUE, zone_name |-> "ASIAN"]]

BullishSetup ==
    [momentum |-> [bullish_count |-> 3, bearish_count |-> 0],
     fair_value_gaps |->
        <<[type |-> "BULLISH_FVG", gap_low |-> EntryPrice - 30 * PIP_VALUE,
           gap_high |-> EntryPrice - 20 * PIP_VALUE]>>,
     kill_zone |-> [in_kill_zone |-> TRUE, zone_name |-> "LONDON"],
     bos_levels |-> TRUE,
     swept |-> TRUE,
     sr_levels |->
        [support |-> <<[price |-> EntryPrice - 15 * PIP_VALUE,
                        final_strength |-> 70],
                       [price |-> EntryPrice - 50 * PIP_VALUE,
                        final_strength |-> 40]>>,
         resistance |-> <<[price |-> EntryPrice + 60 * PIP_VALUE,
                           final_strength |-> 50]>>],
     is_at_golden_ratio |-> TRUE,
     swing |-> <<EntryPrice + 100 * PIP_VALUE, EntryPrice - 100 * PIP_VALUE>>]

BearishSetup ==
    [momentum |-> [bullish_count |-> 0, bearish_count |-> 3],
     fair_value_gaps |->
        <<[type |-> "BEARISH_FVG", gap_low |-> EntryPrice + 20 * PIP_VALUE,
           gap_high |-> EntryPrice + 30 * PIP_VALUE]>>,
     kill_zone |-> [in_kill_zone |-> TRUE, zone_name |-> "NEW_YORK"],
     bos_levels |-> TRUE,
     swept |-> TRUE,
     sr_levels |->
        [support |-> <<[price |-> EntryPrice - 60 * PIP_VALUE,
                        final_strength |-> 50]>>,
         resistance |-> <<[price |-> EntryPrice + 15 * PIP_VALUE,
                           final_strength |-> 70],
                          [price |-> EntryPrice + 50 * PIP_VALUE,
                           final_strength |-> 40]>>],
     is_at_golden_ratio |-> TRUE,
     swing |-> <<EntryPrice - 100 * PIP_VALUE, EntryPrice + 100 * PIP_VALUE>>]

EntryEvidence == {QuietMarket, AsianSession, BullishSetup, BearishSetup}

\* The results generate_signal holds after its step 3.
EntryAnalysisOf(frame, ev) ==
    [trend |-> frame.trend,
     close |-> frame.close,
     momentum |-> ev.momentum,
     ict |-> [order_blocks |-> frame.order_blocks,
              fair_value_gaps |-> ev.fair_value_gaps,
              kill_zone |-> ev.kill_zone,
              bos_levels |-> ev.bos_levels,
              swept |-> ev.swept],
     sr_levels |-> ev.sr_levels,
     is_at_golden_ratio |-> ev.is_at_golden_ratio,
     swing |-> ev.swing]

\* What generate_signal reads and never writes.
GenInputs == <<data_dict, news_data, account_balance, risk_percentage,
               ictVars, eqVars, restVars>>

\* The trade levels of steps 7 and 8.
LevelVars == <<entry, stop_loss, take_profits, risk_params,
               trade_direction, swing, sr_levels>>

GenInit ==
    /\ data_dict \in [Range(TimeframeKeys) -> Frames \cup {Missing, NoResult}]
    /\ news_data \in NewsFeeds
    /\ gen_pc = "constructed"
    /\ mtf_result = NoResult
    /\ trade_rec = NoResult
    /\ entry_analysis = NoResult
    /\ news_check = NoResult
    /\ signal = NoResult
    /\ gen_error = "none"
    /\ account_balance = 10000
    /\ risk_percentage = 200
    /\ entry = 0
    /\ stop_loss = 0
    /\ risk_params = NoResult
    /\ LevelsIdle
    /\ ConfIdle
    /\ IctIdle
    /\ EqIdle
    /\ RestIdle

\* Step 1: mtf_analysis.analyze_all_timeframes()
AnalyzeAllTimeframes ==
    /\ gen_pc = "constructed"
    /\ LET r == analyze_all_timeframes(data_dict)
       IN  IF IsRaised(r)
           THEN /\ gen_error' = r.error
                /\ gen_pc' = "raised"
                /\ UNCHANGED mtf_result
           ELSE /\ mtf_result' = r
                /\ gen_pc' = "analyzed"
                /\ UNCHANGED gen_error
    /\ UNCHANGED <<trade_rec, entry_analysis, news_check, signal>>
    /\ UNCHANGED <<confVars, LevelVars, GenInputs>>

\* Step 2 and the first gate: a NEUTRAL recommendation returns None.
GetTradeRecommendation ==
    /\ gen_pc = "analyzed"
    /\ LET r == get_trade_recommendation(data_dict)
       IN  IF IsRaised(r)
           THEN /\ gen_error' = r.error
                /\ gen_pc' = "raised"
                /\ UNCHANGED trade_rec
           ELSE /\ trade_rec' = r
                /\ gen_pc' = IF r.direction = NEUTRAL THEN "returned"
                             ELSE "recommended"
                /\ UNCHANGED gen_error
    /\ UNCHANGED <<mtf_result, entry_analysis, news_check, signal>>
    /\ UNCHANGED <<confVars, LevelVars, GenInputs>>

\* The second gate and step 3: the analyses of the entry-timeframe frame.
EntryAnalysis ==
    /\ gen_pc = "recommended"
    /\ LET entry_tf == mtf_result.entry_timeframe
       IN  IF \/ entry_tf \notin Range(Keys(data_dict))
              \/ data_dict[entry_tf] = NoResult
           THEN /\ gen_pc' = "returned"
                /\ UNCHANGED <<entry_analysis, gen_error>>
           ELSE IF IsRaised(full_ict_analysis(data_dict[entry_tf]))
                THEN /\ gen_error' = "ValueError"
                     /\ gen_pc' = "raised"
                     /\ UNCHANGED entry_analysis
                ELSE /\ \E ev \in EntryEvidence :
                           entry_analysis' =
                               EntryAnalysisOf(data_dict[entry_tf], ev)
                     /\ gen_pc' = "entry_analysed"
                     /\ UNCHANGED gen_error
    /\ UNCHANGED <<mtf_result, trade_rec, news_check, signal>>
    /\ UNCHANGED <<confVars, LevelVars, GenInputs>>

\* Steps 4 and 5 and the third gate.
CollectAndValidate ==
    /\ gen_pc = "entry_analysed"
    /\ LET c == _collect_confirmations(trade_rec.direction, entry_analysis,
                                       mtf_result)
       IN  IF IsRaised(c)
           THEN /\ gen_error' = c.error
                /\ gen_pc' = "raised"
                /\ UNCHANGED confVars
           ELSE /\ confirmations' = c.confirmations
                /\ direction' = trade_rec.direction
                /\ validation' = validate_confirmations(c.confirmations,
                                                        trade_rec.direction)
                /\ gen_pc' = IF validation'.is_valid THEN "validated"
                             ELSE "returned"
                /\ UNCHANGED gen_error
    /\ UNCHANGED <<mtf_result, trade_rec, entry_analysis, news_check, signal>>
    /\ UNCHANGED <<LevelVars, GenInputs>>

\* Step 6 with no gate behind it
CheckNewsAlignment_no_gate ==
    /\ gen_pc = "validated"
    /\ news_check' = _check_news_alignment(news_data, trade_rec.direction)
    /\ gen_pc' = "news_checked"
    /\ UNCHANGED <<mtf_result, trade_rec, entry_analysis, signal, gen_error>>
    /\ UNCHANGED <<confVars, LevelVars, GenInputs>>

\* Step 6 and the fourth gate.
CheckNewsAlignment ==
    /\ gen_pc = "validated"
    /\ news_check' = _check_news_alignment(news_data, trade_rec.direction)
    /\ gen_pc' = IF news_check'.conflicting THEN "returned"
                 ELSE "news_checked"
    /\ UNCHANGED <<mtf_result, trade_rec, entry_analysis, signal, gen_error>>
    /\ UNCHANGED <<confVars, LevelVars, GenInputs>>

\* Steps 7 to 10: the levels, the position size and the signal.
BuildSignal ==
    /\ gen_pc = "news_checked"
    /\ LET dir == trade_rec.direction
           ea == entry_analysis
           entry_levels == _calculate_entry_levels(ea.close, dir, ea.ict)
           stop == _calculate_stop_loss(entry_levels.entry, dir, ea.ict,
                                        ea.sr_levels)
           sr == [support |-> Prices(ea.sr_levels.support),
                  resistance |-> Prices(ea.sr_levels.resistance)]
           tps == _calculate_take_profits(
                      entry_levels.entry, dir,
                      calculate_extension(ea.swing[1], ea.swing[2]), sr)
           rp == calculate_position_size(entry_levels.entry, stop.stop_loss,
                                         account_balance, risk_percentage)
       IN  IF IsRaised(entry_levels)
           THEN /\ gen_error' = entry_levels.error
                /\ gen_pc' = "raised"
                /\ UNCHANGED <<signal, LevelVars>>
           ELSE /\ entry' = entry_levels.entry
                /\ stop_loss' = stop.stop_loss
                /\ take_profits' = tps
                /\ risk_params' = rp
                /\ trade_direction' = dir
                /\ swing' = ea.swing
                /\ sr_levels' = sr
                /\ signal' =
                      [direction |-> dir,
                       entry |-> entry_levels.entry,
                       stop_loss |-> stop.stop_loss,
                       take_profit_1 |-> tps[1].price,
                       take_profit_2 |-> tps[2].price,
                       take_profit_3 |-> tps[3].price,
                       position_size |-> rp.position_size,
                       timeframe_alignment |-> mtf_result.alignment.status,
                       primary_trend |-> mtf_result.primary_trend.trend,
                       confirmations |-> confirmations,
                       confirmation_count |-> validation.count,
                       confidence_score |-> validation.confidence,
                       news_sentiment |-> news_check.sentiment,
                       news_impact |-> news_check.impact,
                       entry_reason |-> entry_levels.reason]
                /\ gen_pc' = "returned"
                /\ UNCHANGED gen_error
    /\ UNCHANGED <<mtf_result, trade_rec, entry_analysis, news_check>>
    /\ UNCHANGED <<confVars, account_balance, risk_percentage, data_dict,
                   news_data, ictVars, eqVars, restVars>>

GenNext ==
    \/ AnalyzeAllTimeframes
    \/ GetTradeRecommendation
    \/ EntryAnalysis
    \/ CollectAndValidate
    \/ CheckNewsAlignment
    \/ BuildSignal

SpecGen == GenInit /\ [][GenNext]_vars

\* The timeframes of the map that hold a frame.
Usable == Analysed(data_dict)

\* The votes for one trend among the usable timeframes.
Votes(trend) ==
    Cardinality({i \in DOMAIN Usable : data_dict[Usable[i]].trend = trend})

\* C5: whenever some or all timeframes of the map are missing or None, the
\* aggregation and generate_signal complete without raising and work on
\* exactly the timeframes that hold a frame; when none does, the outcome
\* is the no-signal value None.
C5_PartialDataTolerated ==
    (/\ gen_pc # "idle"
     /\ \E tf \in Range(TimeframeKeys) : data_dict[tf] \in {Missing, NoResult})
    => /\ gen_pc # "raised"
       /\ mtf_result # NoResult => mtf_result.timeframes = Usable
       /\ (Usable = <<>> /\ gen_pc # "constructed")
          => (gen_pc = "returned" /\ signal = NoResult)

C6_LevelsUntouched ==
    /\ entry = 0
    /\ stop_loss = 0
    /\ take_profits = NoResult
    /\ risk_params = NoResult

C6_GateFailed ==
    \/ trade_rec # NoResult /\ trade_rec.direction = NEUTRAL
    \/ /\ trade_rec # NoResult
       /\ gen_pc \notin {"analyzed", "recommended"}
       /\ \/ mtf_result.entry_timeframe \notin Range(Keys(data_dict))
          \/ data_dict[mtf_result.entry_timeframe] = NoResult
    \/ validation # NoResult /\ ~validation.is_valid
    \/ news_check # NoResult /\ news_check.conflicting

\* C6: a signal is returned only after all four gates passed, each gate
\* is evaluated only after the gates before it passed (direction BUY or
\* SELL, entry frame present, confirmations valid, news not conflicting),
\* a failed gate ends the call with None, and entry, stop, targets and
\* position size are computed for no rejected candidate.
C6_GatesInOrder ==
    gen_pc # "idle" =>
       /\ signal # NoResult =>
             /\ gen_pc = "returned"
             /\ trade_rec # NoResult
             /\ trade_rec.direction \in {BUY, SELL}
             /\ mtf_result.entry_timeframe \in Range(Usable)
             /\ validation # NoResult
             /\ validation.is_valid
             /\ news_check # NoResult
             /\ ~news_check.conflicting
       /\ entry_analysis # NoResult =>
             /\ trade_rec # NoResult
             /\ trade_rec.direction \in {BUY, SELL}
             /\ mtf_result.entry_timeframe \in Range(Usable)
       /\ validation # NoResult => entry_analysis # NoResult
       /\ news_check # NoResult =>
             (validation # NoResult /\ validation.is_valid)
       /\ ~C6_LevelsUntouched =>
             /\ signal # NoResult
             /\ ~news_check.conflicting
       /\ C6_GateFailed =>
             /\ gen_pc = "returned"
             /\ signal = NoResult
             /\ C6_LevelsUntouched

C6_Witness ==
    /\ gen_pc = "returned"
    /\ signal # NoResult
    /\ signal.direction = SELL
    /\ validation.is_valid
    /\ news_data # <<>>
    /\ ~news_check.conflicting
    /\ ~C6_LevelsUntouched

LIQUIDITY_SWEEP_PIPS == 100

\* The run that starts at index i of the sorted list: the prices within
\* the tolerance of prices_sorted[i]; the index after it.
RECURSIVE RunEnd(_, _, _, _)
RunEnd(prices_sorted, i, j, tolerance) ==
    IF j <= Len(prices_sorted)
       /\ Abs(prices_sorted[j] - prices_sorted[i]) <= tolerance
    THEN RunEnd(prices_sorted, i, j + 1, tolerance)
    ELSE j

\* The outer loop `while i < len(prices_sorted)`, `i = j`.
RECURSIVE EqualLevelsFrom(_, _, _, _)
EqualLevelsFrom(prices_sorted, i, tolerance, n) ==
    IF i > Len(prices_sorted) THEN <<>>
    ELSE LET j == RunEnd(prices_sorted, i, i + 1, tolerance)
             equal_count == j - i
             found == IF equal_count >= 2
                      THEN <<[price |-> prices_sorted[i],
                              count |-> equal_count,
                              strength |-> Fraction(equal_count, n)]>>
                      ELSE <<>>
         IN  found \o EqualLevelsFrom(prices_sorted, j, tolerance, n)

\* sweep_pips is the LIQUIDITY_SWEEP_PIPS the settings hold.
_find_equal_levels(ps, sweep_pips) ==
    IF ps = <<>> THEN <<>>
    ELSE EqualLevelsFrom(SortSeq(ps, LAMBDA a, b : a < b), 1,
                         sweep_pips * PIP_VALUE, Len(ps))

\* Swing prices half a default tolerance apart, and the settings compared.
SwingPrices == {BasePrice + k * (LIQUIDITY_SWEEP_PIPS \div 2) * PIP_VALUE :
                   k \in 0..6}

SweepSettings == {LIQUIDITY_SWEEP_PIPS \div 2, LIQUIDITY_SWEEP_PIPS,
                  2 * LIQUIDITY_SWEEP_PIPS}

MaxPrices == 4

EqInit ==
    /\ prices = <<>>
    /\ equal_levels = <<>>
    /\ ConfIdle
    /\ TPIdle
    /\ PosIdle
    /\ IctIdle
    /\ GenIdle
    /\ RestIdle

\* identify_liquidity_pools records one more swing high or low.
AddSwingPrice ==
    /\ DOMAIN equal_levels = {}
    /\ Len(prices) < MaxPrices
    /\ \E p \in SwingPrices : prices' = Append(prices, p)
    /\ UNCHANGED equal_levels
    /\ UNCHANGED NotEq

\* _find_equal_levels on the list, under one setting of the tolerance.
FindEqualLevels ==
    /\ \E t \in SweepSettings \ DOMAIN equal_levels :
          equal_levels' =
              [u \in DOMAIN equal_levels \cup {t} |->
                  IF u = t THEN _find_equal_levels(prices, t)
                  ELSE equal_levels[u]]
    /\ UNCHANGED prices
    /\ UNCHANGED NotEq

EqNext == AddSwingPrice \/ FindEqualLevels

SpecEq == EqInit /\ [][EqNext]_vars

\* The sum of the 'count' fields of a result.
RECURSIVE TotalCount(_)
TotalCount(levels) ==
    IF levels = <<>> THEN 0
    ELSE Head(levels).count + TotalCount(Tail(levels))

\* C10: for one list of prices and two tolerances t1 <= t2, the prices
\* counted in the clusters reported under t2 are at least as many as
\* those counted under t1.
C10_MonotoneInTolerance ==
    \A t1, t2 \in DOMAIN equal_levels :
       t1 <= t2
       => TotalCount(equal_levels[t2]) >= TotalCount(equal_levels[t1])

\* The end of the maximal run of consecutive differences within the
\* tolerance that starts at index i: the index after it.
RECURSIVE C11_ChainEnd(_, _, _)
C11_ChainEnd(prices_sorted, j, tolerance) ==
    IF j <= Len(prices_sorted)
       /\ prices_sorted[j] - prices_sorted[j - 1] <= tolerance
    THEN C11_ChainEnd(prices_sorted, j + 1, tolerance)
    ELSE j

\* The <<first price, length>> of every maximal run with 2 or more members.
RECURSIVE C11_Chains(_, _, _)
C11_Chains(prices_sorted, i, tolerance) ==
    IF i > Len(prices_sorted) THEN <<>>
    ELSE LET j == C11_ChainEnd(prices_sorted, i + 1, tolerance)
         IN  (IF j - i >= 2 THEN <<(<<prices_sorted[i], j - i>>)>> ELSE <<>>)
             \o C11_Chains(prices_sorted, j, tolerance)

\* C11: under every tolerance the levels reported are exactly the maximal
\* runs of the sorted prices in which consecutive prices differ by at most
\* the tolerance and that have at least 2 members, each with its length as
\* count.
C11_MaximalRuns ==
    \A t \in DOMAIN equal_levels :
       [k \in DOMAIN equal_levels[t] |->
           <<equal_levels[t][k].price, equal_levels[t][k].count>>]
       = C11_Chains(SortSeq(prices, LAMBDA a, b : a < b), 1, t * PIP_VALUE)

(***************************************************************************)
(* HistoricalDataManager                                                   *)
(***************************************************************************)
\* A float that is NaN.
NaN == -1

\* df.dropna(): the rows without a NaN.
DropNa(rows) ==
    SelectSeq(rows, LAMBDA r : /\ r.open # NaN /\ r.high # NaN
                               /\ r.low # NaN /\ r.close # NaN)

\* df[~df.index.duplicated(keep='last')]: of the rows that share a
\* timestamp only the last stays.
RECURSIVE DropDuplicated(_)
DropDuplicated(rows) ==
    IF rows = <<>> THEN <<>>
    ELSE IF \E k \in 2..Len(rows) : rows[k].timestamp = rows[1].timestamp
         THEN DropDuplicated(Tail(rows))
         ELSE <<Head(rows)>> \o DropDuplicated(Tail(rows))

\* df.sort_index(), on timestamps that are distinct by now.
SortIndex(rows) == SortSeq(rows, LAMBDA a, b : a.timestamp < b.timestamp)

\* The boolean mask of the OHLC relationships.
OhlcMask(r) ==
    /\ r.low <= r.high
    /\ r.low <= r.open
    /\ r.low <= r.close
    /\ r.high >= r.open
    /\ r.high >= r.close

_clean_data(rows) ==
    SelectSeq(SortIndex(DropDuplicated(DropNa(rows))), OhlcMask)

\* `bars` of get_data_for_analysis as _fetch_all_timeframes passes it.
AnalysisBars == 300

\* None for an empty download, else the cleaned rows, at most `bars`.
get_data_for_analysis(rows) ==
    IF rows = <<>> THEN NoResult
    ELSE [rows |-> LastN(_clean_data(rows), AnalysisBars)]

\* Rows of the download: three timestamps, a well-formed bar, a bar whose
\* low lies above its open, a bar whose high lies below its close, and a
\* bar with a NaN close.
RowShapes ==
    {[open |-> BasePrice, high |-> BasePrice + 50 * PIP_VALUE,
      low |-> BasePrice - 50 * PIP_VALUE, close |-> BasePrice + 20 * PIP_VALUE],
     [open |-> BasePrice, high |-> BasePrice + 50 * PIP_VALUE,
      low |-> BasePrice + 10 * PIP_VALUE, close |-> BasePrice + 20 * PIP_VALUE],
     [open |-> BasePrice, high |-> BasePrice + 10 * PIP_VALUE,
      low |-> BasePrice - 50 * PIP_VALUE, close |-> BasePrice + 20 * PIP_VALUE],
     [open |-> BasePrice, high |-> BasePrice + 50 * PIP_VALUE,
      low |-> BasePrice - 50 * PIP_VALUE, close |-> NaN]}

MaxTimestamp == 3

DownloadRows ==
    {[timestamp |-> ts, open |-> sh.open, high |-> sh.high, low |-> sh.low,
      close |-> sh.close] : ts \in 1..MaxTimestamp, sh \in RowShapes}

MaxRows == 3

NotData == <<confVars, tpVars, posVars, ictVars, genVars, eqVars, runVars,
             entryVars, poolVars, structVars, cycleVars,
    coolVars,
    loopVars,
    retryVars,
    labelVars>>

DataInit ==
    /\ LabelIdle
    /\ RetryIdle
    /\ LoopIdle
    /\ CoolIdle
    /\ RunIdle
    /\ CycleIdle
    /\ PoolIdle
    /\ StructIdle
    /\ EntryIdle
    /\ raw_rows = <<>>
    /\ analysis_df = Pending
    /\ detector_input = Pending
    /\ ConfIdle
    /\ TPIdle
    /\ PosIdle
    /\ IctIdle
    /\ GenIdle
    /\ EqIdle

\* The Yahoo client delivers one more row.
DownloadRow ==
    /\ analysis_df = Pending
    /\ Len(raw_rows) < MaxRows
    /\ \E r \in DownloadRows : raw_rows' = Append(raw_rows, r)
    /\ UNCHANGED <<analysis_df, detector_input>>
    /\ UNCHANGED NotData

GetDataForAnalysis ==
    /\ analysis_df = Pending
    /\ analysis_df' = get_data_for_analysis(raw_rows)
    /\ UNCHANGED <<raw_rows, detector_input>>
    /\ UNCHANGED NotData

\* _fetch_all_timeframes keeps a frame that is not None, and the analyses
\* of the cycle are constructed on it.
AnalyseFrame ==
    /\ analysis_df # Pending
    /\ analysis_df # NoResult
    /\ detector_input = Pending
    /\ detector_input' = analysis_df
    /\ UNCHANGED <<raw_rows, analysis_df>>
    /\ UNCHANGED NotData

DataNext == DownloadRow \/ GetDataForAnalysis \/ AnalyseFrame

SpecData == DataInit /\ [][DataNext]_vars

\* The download breaks the OHLC relationships in some row, or its
\* timestamps do not strictly increase.
C12_Invalid ==
    \/ \E k \in DOMAIN raw_rows :
          raw_rows[k].close # NaN /\ ~OhlcMask(raw_rows[k])
    \/ \E k \in 1..(Len(raw_rows) - 1) :
          raw_rows[k].timestamp >= raw_rows[k + 1].timestamp

\* C12: a series that breaks the OHLC relationships or whose timestamps
\* are not monotonic is answered with a validation error and its rows, as
\* they are or repaired, reach no detector.
C12_InvalidSeriesRejected ==
    (C12_Invalid /\ analysis_df # Pending)
    => /\ IsRaised(analysis_df)
       /\ detector_input = Pending

\* C13: on a series shorter than a detector's minimum window (50 bars for
\* order blocks and the breaker blocks derived from them, 3 bars for fair
\* value gaps), a series of 0 or 1 bars included, the detector returns an
\* empty result and nothing is raised.
C13_ShortSeriesEmpty ==
    (ict_pc # "idle" /\ Len(bars) < ORDER_BLOCK_LOOKBACK)
    => /\ ict_pc # "raised"
       /\ ict_error = "none"
       /\ OrderBlocksDone => order_blocks = <<>>
       /\ (GapsDone /\ Len(bars) < 3) => fair_value_gaps = <<>>
       /\ BreakersDone => breaker_blocks = <<>>

(***************************************************************************)
(* Kill zones and repeated executions of generate_signal                   *)
(***************************************************************************)

\* settings.ICT_KILL_ZONES in the order of the dict, the "HH:MM" bounds in
\* minutes after midnight (zero-padded strings of one width compare as the
\* minutes do).
ICT_KILL_ZONES ==
    <<[zone_name |-> "ASIAN", start |-> 0, end |-> 180],
      [zone_name |-> "LONDON", start |-> 420, end |-> 600],
      [zone_name |-> "NEW_YORK", start |-> 810, end |-> 960],
      [zone_name |-> "LONDON_CLOSE", start |-> 900, end |-> 1020]>>

\* (True, zone_name) for the first zone that holds the time, else
\* (False, None).
is_kill_zone(timestamp) ==
    LET holding == SelectSeq(ICT_KILL_ZONES,
                             LAMBDA z : z.start <= timestamp
                                        /\ timestamp <= z.end)
    IN  IF holding # <<>>
        THEN [in_kill_zone |-> TRUE, zone_name |-> holding[1].zone_name]
        ELSE [in_kill_zone |-> FALSE, zone_name |-> "None"]

\* The fields of analyze_kill_zone that generate_signal reads; the time
\* is the clock's at the call.
analyze_kill_zone(clock) == is_kill_zone(clock)

\* generate_signal as one function of the constructor's arguments, of what
\* the analyses of the entry frame report and of the clock: None, the
\* exception, or the fields of the signal that the trade is made of.
generate_signal(d, news, ev, clock, balance, pct) ==
    LET mtf == analyze_all_timeframes(d)
        rec == get_trade_recommendation(d)
        dir == rec.direction
        entry_tf == mtf.entry_timeframe
        ea == EntryAnalysisOf(
                  d[entry_tf],
                  [ev EXCEPT !.kill_zone = analyze_kill_zone(clock)])
        c == _collect_confirmations(dir, ea, mtf)
        v == validate_confirmations(c.confirmations, dir)
        news_alignment == _check_news_alignment(news, dir)
        entry_levels == _calculate_entry_levels(ea.close, dir, ea.ict)
        stop == _calculate_stop_loss(entry_levels.entry, dir, ea.ict,
                                     ea.sr_levels)
        tps == _calculate_take_profits(
                   entry_levels.entry, dir,
                   calculate_extension(ea.swing[1], ea.swing[2]),
                   [support |-> Prices(ea.sr_levels.support),
                    resistance |-> Prices(ea.sr_levels.resistance)])
        rp == calculate_position_size(entry_levels.entry, stop.stop_loss,
                                      balance, pct)
    IN  IF IsRaised(mtf) THEN mtf
        ELSE IF dir = NEUTRAL THEN NoResult
        ELSE IF entry_tf \notin Range(Keys(d)) \/ d[entry_tf] = NoResult
             THEN NoResult
        ELSE IF IsRaised(c) THEN c
        ELSE IF ~v.is_valid THEN NoResult
        ELSE IF news_alignment.conflicting THEN NoResult
        ELSE IF IsRaised(entry_levels) THEN entry_levels
        ELSE [direction |-> dir,
              entry |-> entry_levels.entry,
              stop_loss |-> stop.stop_loss,
              take_profit_1 |-> tps[1].price,
              take_profit_2 |-> tps[2].price,
              take_profit_3 |-> tps[3].price,
              position_size |-> rp.position_size,
              timeframe_alignment |-> mtf.alignment.status,
              confirmations |-> c.confirmations,
              confirmation_count |-> v.count,
              confidence_score |-> v.confidence,
              entry_reason |-> entry_levels.reason]

\* Times of day inside each zone, in the overlap of two, and outside all.
ClockTimes == {120, 300, 480, 840, 930, 990, 1200}

\* Frames without order blocks, or no frame, under every timeframe.
RunFrames ==
    {[trend |-> BULLISH, order_blocks |-> <<>>, close |-> EntryPrice],
     [trend |-> BEARISH, order_blocks |-> <<>>, close |-> EntryPrice],
     NoResult}

MaxRuns == 2

NotRun == <<confVars, tpVars, posVars, ictVars, genVars, eqVars, dataVars,
            entryVars, poolVars, structVars, cycleVars,
    coolVars,
    loopVars,
    retryVars,
    labelVars>>

RunInit ==
    /\ LabelIdle
    /\ RetryIdle
    /\ LoopIdle
    /\ CoolIdle
    /\ run_input \in [d : [Range(TimeframeKeys) -> RunFrames],
                      news : NewsFeeds,
                      ev : EntryEvidence]
    /\ now \in ClockTimes
    /\ outcomes = <<>>
    /\ CycleIdle
    /\ DataIdle
    /\ PoolIdle
    /\ StructIdle
    /\ EntryIdle
    /\ ConfIdle
    /\ TPIdle
    /\ PosIdle
    /\ IctIdle
    /\ GenIdle
    /\ EqIdle

\* Time passes between two analysis cycles.
ClockMoves ==
    /\ Len(outcomes) < MaxRuns
    /\ \E t \in ClockTimes : t # now /\ now' = t
    /\ UNCHANGED <<run_input, outcomes>>
    /\ UNCHANGED NotRun

\* SignalGenerator(data_dict, news_data).generate_signal()
GenerateSignal ==
    /\ Len(outcomes) < MaxRuns
    /\ outcomes' = Append(outcomes,
                          generate_signal(run_input.d, run_input.news,
                                          run_input.ev, now, 10000, 200))
    /\ UNCHANGED <<now, run_input>>
    /\ UNCHANGED NotRun

RunNext == ClockMoves \/ GenerateSignal

SpecRun == RunInit /\ [][RunNext]_vars

\* C14: two executions of generate_signal on the same per-timeframe bar
\* series and the same news list yield the same outcome (decision,
\* direction, confirmation list, confidence, entry, stop and targets),
\* whenever they run.
C14_Deterministic ==
    \A i, j \in DOMAIN outcomes : outcomes[i] = outcomes[j]

\* C15: every label _collect_confirmations emits, for every kill-zone name
\* is_kill_zone returns, is a key of CONFIRMATION_WEIGHTS, so none is
\* scored with the default weight.
C15_ClosedVocabulary ==
    \A i \in DOMAIN outcomes :
       "confirmations" \in DOMAIN outcomes[i]
       => \A k \in DOMAIN outcomes[i].confirmations :
             /\ outcomes[i].confirmations[k] \in DOMAIN CONFIRMATION_WEIGHTS
             /\ WeightOf(outcomes[i].confirmations[k]) # DefaultWeight

\* C26: every emitted signal carries the label MULTI_TIMEFRAME_ALIGNMENT,
\* is a BUY with BULLISH_ALIGNED or a SELL with BEARISH_ALIGNED, has a
\* confirmation_count of at least 3 and a confidence_score in [0.3, 1.0]
\* (30..100 hundredths).
C26_EmittedSignalIsAligned ==
    \A i \in DOMAIN outcomes :
       "direction" \in DOMAIN outcomes[i]
       => /\ \E k \in DOMAIN outcomes[i].confirmations :
                outcomes[i].confirmations[k] = "MULTI_TIMEFRAME_ALIGNMENT"
          /\ \/ /\ outcomes[i].direction = BUY
                /\ outcomes[i].timeframe_alignment = "BULLISH_ALIGNED"
             \/ /\ outcomes[i].direction = SELL
                /\ outcomes[i].timeframe_alignment = "BEARISH_ALIGNED"
          /\ outcomes[i].confirmation_count >= 3
          /\ outcomes[i].confidence_score >= 30
          /\ outcomes[i].confidence_score <= 100

\* A run that emits nothing and, after the clock has moved, a run on the
\* same input that emits a SELL signal.
C26_Witness ==
    /\ Len(outcomes) >= 2
    /\ outcomes[1] = NoResult
    /\ "direction" \in DOMAIN outcomes[2]
    /\ outcomes[2].direction = SELL
    /\ outcomes[2].confirmation_count >= 3

\* RiskCalculator.validate_trade_parameters: the errors that clear is_valid
\* (the warnings change nothing).  A stop closer than 150 pips is too
\* tight; the entry lies strictly between stop and target; the side of the
\* trade is read from the target, and the stop is on the other side.
validate_trade_parameters(e, sl, take_profit) ==
    LET too_tight == Abs(e - sl) < 150 * PIP_VALUE
        not_between == e <= Min(sl, take_profit) \/ e >= Max(sl, take_profit)
        side == IF take_profit > e THEN "BUY" ELSE "SELL"
        wrong_side == \/ side = "BUY" /\ sl >= e
                      \/ side = "SELL" /\ sl <= e
    IN  [is_valid |-> ~too_tight /\ ~not_between /\ ~wrong_side]

\* C27: for every emitted signal, validate_trade_parameters(entry,
\* stop_loss, take_profit_1) returns is_valid = true.
C27_SignalPassesRiskRules ==
    \A i \in DOMAIN outcomes :
       "direction" \in DOMAIN outcomes[i]
       => validate_trade_parameters(outcomes[i].entry, outcomes[i].stop_loss,
                                    outcomes[i].take_profit_1).is_valid

(***************************************************************************)
(* The entry and the stop of a signal                                      *)
(***************************************************************************)

\* Zones below the price for a BUY and above it for a SELL, as offsets of
\* the low and the high from the price in pips: the whole zone inside the
\* 10..50 band, only its nearer edge inside, and the whole zone beyond.
ZoneOffsets ==
    {<<-30, -20>>, <<-60, -20>>, <<-80, -70>>,
     <<20, 30>>, <<20, 60>>, <<70, 80>>}

FairValueGapsNear(p) ==
    {[type |-> IF z[1] < 0 THEN "BULLISH_FVG" ELSE "BEARISH_FVG",
      gap_low |-> p + z[1] * PIP_VALUE,
      gap_high |-> p + z[2] * PIP_VALUE] : z \in ZoneOffsets}

OrderBlocksNear(p) ==
    {[type |-> IF z[1] < 0 THEN BULLISH_OB ELSE BEARISH_OB,
      low |-> p + z[1] * PIP_VALUE,
      high |-> p + z[2] * PIP_VALUE] : z \in {<<-30, -20>>, <<20, 30>>}}

\* Ranked levels 4, 15 and 50 pips from the price.
LevelOffsets == {4, 15, 50}

MaxZones == 2

MaxRanked == 2

NotEntry == <<confVars, tpVars, posVars, ictVars, genVars, eqVars, dataVars,
              runVars, poolVars, structVars, cycleVars,
    coolVars,
    loopVars,
    retryVars,
    labelVars>>

EntryInit ==
    /\ LabelIdle
    /\ RetryIdle
    /\ LoopIdle
    /\ CoolIdle
    /\ market_price = EntryPrice
    /\ level_direction \in {BUY, SELL}
    /\ level_ict = [order_blocks |-> <<>>, fair_value_gaps |-> <<>>]
    /\ level_sr = [support |-> <<>>, resistance |-> <<>>]
    /\ entry_result = Pending
    /\ stop_entry = 0
    /\ stop_result = Pending
    /\ CycleIdle
    /\ DataIdle
    /\ PoolIdle
    /\ StructIdle
    /\ RunIdle
    /\ ConfIdle
    /\ TPIdle
    /\ PosIdle
    /\ IctIdle
    /\ GenIdle
    /\ EqIdle

\* The detectors' results grow while nothing has been calculated.
DetectOrderBlock ==
    /\ entry_result = Pending /\ stop_result = Pending
    /\ Len(level_ict.order_blocks) < 1
    /\ \E ob \in OrderBlocksNear(market_price) :
          level_ict' = [level_ict EXCEPT
                           !.order_blocks = Append(@, ob)]
    /\ UNCHANGED <<market_price, level_direction, level_sr, entry_result,
                   stop_entry, stop_result>>
    /\ UNCHANGED NotEntry

DetectFairValueGap ==
    /\ entry_result = Pending /\ stop_result = Pending
    /\ Len(level_ict.fair_value_gaps) < MaxZones
    /\ \E fvg \in FairValueGapsNear(market_price) :
          level_ict' = [level_ict EXCEPT
                           !.fair_value_gaps = Append(@, fvg)]
    /\ UNCHANGED <<market_price, level_direction, level_sr, entry_result,
                   stop_entry, stop_result>>
    /\ UNCHANGED NotEntry

RankSupport ==
    /\ entry_result = Pending /\ stop_result = Pending
    /\ Len(level_sr.support) < MaxRanked
    /\ \E k \in LevelOffsets :
          level_sr' = [level_sr EXCEPT
                          !.support =
                              Append(@, [price |-> market_price
                                                   - k * PIP_VALUE,
                                         final_strength |-> 50])]
    /\ UNCHANGED <<market_price, level_direction, level_ict, entry_result,
                   stop_entry, stop_result>>
    /\ UNCHANGED NotEntry

RankResistance ==
    /\ entry_result = Pending /\ stop_result = Pending
    /\ Len(level_sr.resistance) < MaxRanked
    /\ \E k \in LevelOffsets :
          level_sr' = [level_sr EXCEPT
                          !.resistance =
                              Append(@, [price |-> market_price
                                                   + k * PIP_VALUE,
                                         final_strength |-> 50])]
    /\ UNCHANGED <<market_price, level_direction, level_ict, entry_result,
                   stop_entry, stop_result>>
    /\ UNCHANGED NotEntry

\* Step 7: _calculate_entry_levels(current_price, direction, ict_result, ...)
CalculateEntryLevels ==
    /\ entry_result = Pending
    /\ entry_result' = _calculate_entry_levels(market_price, level_direction,
                                               level_ict)
    /\ UNCHANGED <<market_price, level_direction, level_ict, level_sr,
                   stop_entry, stop_result>>
    /\ UNCHANGED NotEntry

\* Step 8: _calculate_stop_loss(entry, direction, ict_result, sr_levels),
\* on the entry of step 7 or, called by itself, on the price.
CalculateStopLoss ==
    /\ stop_result = Pending
    /\ \E e \in {market_price} \cup
                (IF "entry" \in DOMAIN entry_result
                 THEN {entry_result.entry} ELSE {}) :
          /\ stop_entry' = e
          /\ stop_result' = _calculate_stop_loss(e, level_direction,
                                                 level_ict, level_sr)
    /\ UNCHANGED <<market_price, level_direction, level_ict, level_sr,
                   entry_result>>
    /\ UNCHANGED NotEntry

EntryNext ==
    \/ DetectOrderBlock
    \/ DetectFairValueGap
    \/ RankSupport
    \/ RankResistance
    \/ CalculateEntryLevels
    \/ CalculateStopLoss

SpecEntry == EntryInit /\ [][EntryNext]_vars

\* The stops the structure offers: 10 pips beyond each order block of the
\* trade's polarity and beyond each of the first two levels on the losing
\* side of the entry.
C16_Candidates ==
    IF level_direction = BUY
    THEN {level_ict.order_blocks[i].low - 10 * PIP_VALUE :
             i \in {j \in DOMAIN level_ict.order_blocks :
                       level_ict.order_blocks[j].type = BULLISH_OB}}
         \cup {level_sr.support[i].price - 10 * PIP_VALUE :
                  i \in {j \in DOMAIN level_sr.support :
                            j <= 2 /\ level_sr.support[j].price < stop_entry}}
    ELSE {level_ict.order_blocks[i].high + 10 * PIP_VALUE :
             i \in {j \in DOMAIN level_ict.order_blocks :
                       level_ict.order_blocks[j].type = BEARISH_OB}}
         \cup {level_sr.resistance[i].price + 10 * PIP_VALUE :
                  i \in {j \in DOMAIN level_sr.resistance :
                            j <= 2
                            /\ level_sr.resistance[j].price > stop_entry}}

\* The losing-side distance of a stop from the entry.
C16_Distance(st) ==
    IF level_direction = BUY THEN stop_entry - st ELSE st - stop_entry

\* C16: _calculate_stop_loss returns a stop on the losing side of the
\* entry, at least 15 pips from it: the candidate closest to the entry
\* among those that meet the floor, or the entry minus/plus 30 pips when
\* none does; so the stop never equals the entry.
C16_StopRule ==
    stop_result # Pending
    => /\ "stop_loss" \in DOMAIN stop_result
       /\ LET valid == {c \in C16_Candidates :
                           C16_Distance(c) >= 15 * PIP_VALUE}
              st == stop_result.stop_loss
          IN  /\ C16_Distance(st) >= 15 * PIP_VALUE
              /\ st # stop_entry
              /\ IF valid = {}
                 THEN C16_Distance(st) = 30 * PIP_VALUE
                 ELSE /\ st \in valid
                      /\ \A c \in valid : C16_Distance(st) <= C16_Distance(c)

\* The order blocks and fair value gaps of the trade's polarity, each with
\* the reason that names its kind and polarity.
C17_Zones ==
    {[low |-> level_ict.order_blocks[i].low,
      high |-> level_ict.order_blocks[i].high,
      reason |-> IF level_direction = BUY THEN "ICT Bullish Order Block"
                 ELSE "ICT Bearish Order Block"] :
        i \in {j \in DOMAIN level_ict.order_blocks :
                  level_ict.order_blocks[j].type =
                      IF level_direction = BUY THEN BULLISH_OB
                      ELSE BEARISH_OB}}
    \cup
    {[low |-> level_ict.fair_value_gaps[i].gap_low,
      high |-> level_ict.fair_value_gaps[i].gap_high,
      reason |-> IF level_direction = BUY THEN "ICT Bullish Fair Value Gap"
                 ELSE "ICT Bearish Fair Value Gap"] :
        i \in {j \in DOMAIN level_ict.fair_value_gaps :
                  level_ict.fair_value_gaps[j].type =
                      IF level_direction = BUY THEN "BULLISH_FVG"
                      ELSE "BEARISH_FVG"}}

\* The distance from the price to the zone's nearest edge on the entry
\* side (below the price for a BUY, above it for a SELL); -1 when the zone
\* has no edge there.
C17_NearEdgeDistance(z) ==
    IF level_direction = BUY
    THEN IF z.high < market_price THEN market_price - z.high
         ELSE IF z.low < market_price THEN market_price - z.low
         ELSE -1
    ELSE IF z.low > market_price THEN z.low - market_price
         ELSE IF z.high > market_price THEN z.high - market_price
         ELSE -1

C17_Qualifying ==
    {z \in C17_Zones :
        /\ 10 * PIP_VALUE <= C17_NearEdgeDistance(z)
        /\ C17_NearEdgeDistance(z) <= 50 * PIP_VALUE}

\* C17: _calculate_entry_levels returns the current price with reason
\* 'Current market price' exactly when no zone of the trade's polarity has
\* its near edge 10 to 50 pips from the price on the entry side; otherwise
\* the entry is the midpoint of a qualifying zone and the reason names
\* that zone's kind and polarity.
C17_EntryRule ==
    entry_result # Pending
    => /\ "entry" \in DOMAIN entry_result
       /\ IF C17_Qualifying = {}
          THEN /\ entry_result.entry = Round5(market_price)
               /\ entry_result.reason = "Current market price"
          ELSE \E z \in C17_Qualifying :
                  /\ entry_result.entry = Round5((z.low + z.high) \div 2)
                  /\ entry_result.reason = z.reason

(***************************************************************************)
(* Liquidity pools                                                         *)
(***************************************************************************)

\* The highest high and the lowest low of the bars at positions from..to.
MaxHigh(bs, from, to) ==
    CHOOSE h \in {bs[k].high : k \in from..to} :
        \A k \in from..to : bs[k].high <= h

MinLow(bs, from, to) ==
    CHOOSE l \in {bs[k].low : k \in from..to} :
        \A k \in from..to : l <= bs[k].low

\* The positions range(swing_period, len(df) - swing_period) whose high is
\* the highest (whose low is the lowest) of the 11-bar window around them.
SwingHighs(bs) ==
    SelectSeq([k \in 1..Len(bs) |-> k],
              LAMBDA k : /\ 6 <= k /\ k <= Len(bs) - 5
                         /\ bs[k].high = MaxHigh(bs, k - 5, k + 5))

SwingLows(bs) ==
    SelectSeq([k \in 1..Len(bs) |-> k],
              LAMBDA k : /\ 6 <= k /\ k <= Len(bs) - 5
                         /\ bs[k].low = MinLow(bs, k - 5, k + 5))

\* The sweep flags are set on the last five pools of a side only.
identify_liquidity_pools(bs) ==
    LET highs == SwingHighs(bs)
        lows == SwingLows(bs)
        recent_high == MaxHigh(bs, Max(1, Len(bs) - 9), Len(bs))
        recent_low == MinLow(bs, Max(1, Len(bs) - 9), Len(bs))
        buy_side ==
            [n \in DOMAIN highs |->
                [price |-> bs[highs[n]].high,
                 index |-> highs[n] - 1,
                 swept |-> /\ n > Len(highs) - 5
                           /\ recent_high > bs[highs[n]].high]]
        sell_side ==
            [n \in DOMAIN lows |->
                [price |-> bs[lows[n]].low,
                 index |-> lows[n] - 1,
                 swept |-> /\ n > Len(lows) - 5
                           /\ recent_low < bs[lows[n]].low]]
    IN  IF bs = <<>> THEN Raised("IndexError")
        ELSE [buy_side |-> buy_side,
              sell_side |-> sell_side,
              equal_highs |-> _find_equal_levels(
                                  [n \in DOMAIN buy_side |-> buy_side[n].price],
                                  LIQUIDITY_SWEEP_PIPS),
              equal_lows |-> _find_equal_levels(
                                 [n \in DOMAIN sell_side |-> sell_side[n].price],
                                 LIQUIDITY_SWEEP_PIPS)]

\* A quiet range, and bars that reach above or below it.
PoolBars ==
    {[high |-> BasePrice + Wick + u * Wick, low |-> BasePrice - Wick - d * Wick,
      close |-> BasePrice] : u \in {0, 1}, d \in {0, 1}}

QuietRange(n) ==
    [k \in 1..n |-> [high |-> BasePrice + Wick, low |-> BasePrice - Wick,
                     close |-> BasePrice]]

RangeLengths == {0, 10, 13, 16}

MaxPoolTail == 3

NotPool == <<confVars, tpVars, posVars, ictVars, genVars, eqVars, dataVars,
             runVars, entryVars, structVars, cycleVars,
    coolVars,
    loopVars,
    retryVars,
    labelVars>>

PoolInit ==
    /\ LabelIdle
    /\ RetryIdle
    /\ LoopIdle
    /\ CoolIdle
    /\ pool_bars \in {QuietRange(n) : n \in RangeLengths}
    /\ liquidity_pools = Pending
    /\ StructIdle
    /\ CycleIdle
    /\ DataIdle
    /\ RunIdle
    /\ EntryIdle
    /\ ConfIdle
    /\ TPIdle
    /\ PosIdle
    /\ IctIdle
    /\ GenIdle
    /\ EqIdle

\* A new bar closes, up to MaxPoolTail bars after a quiet range.
AppendPoolBar ==
    /\ \E n \in RangeLengths : /\ n <= Len(pool_bars)
                               /\ Len(pool_bars) < n + MaxPoolTail
                               /\ SubSeq(pool_bars, 1, n) = QuietRange(n)
    /\ liquidity_pools = Pending
    /\ \E b \in PoolBars : pool_bars' = Append(pool_bars, b)
    /\ UNCHANGED liquidity_pools
    /\ UNCHANGED NotPool

\* ict.identify_liquidity_pools()
IdentifyLiquidityPools ==
    /\ liquidity_pools = Pending
    /\ liquidity_pools' = identify_liquidity_pools(pool_bars)
    /\ UNCHANGED pool_bars
    /\ UNCHANGED NotPool

PoolNext == AppendPoolBar \/ IdentifyLiquidityPools

SpecPool == PoolInit /\ [][PoolNext]_vars

\* C18: every pool of the result is swept iff the last 10 bars traded
\* through it: a buy-side pool iff their highest high exceeds its price, a
\* sell-side pool iff their lowest low is below its price.
C18_SweptIffTradedThrough ==
    (liquidity_pools # Pending /\ ~IsRaised(liquidity_pools))
    => LET last10 == Max(1, Len(pool_bars) - 9)
       IN  /\ \A n \in DOMAIN liquidity_pools.buy_side :
                 liquidity_pools.buy_side[n].swept
                 <=> (\E k \in last10..Len(pool_bars) :
                         pool_bars[k].high > liquidity_pools.buy_side[n].price)
           /\ \A n \in DOMAIN liquidity_pools.sell_side :
                 liquidity_pools.sell_side[n].swept
                 <=> (\E k \in last10..Len(pool_bars) :
                         pool_bars[k].low < liquidity_pools.sell_side[n].price)

(***************************************************************************)
(* Market structure                                                        *)
(***************************************************************************)

\* A fake breakout in the last 20 bars: a bar beyond all earlier ones of
\* the 20 whose fifth successor closes back across its open.
InducementDetected(bs) ==
    /\ Len(bs) >= 20
    /\ LET recent == LastN(bs, 20)
       IN  \E j \in 2..15 :
              \/ /\ recent[j].high > MaxHigh(recent, 1, j - 1)
                 /\ recent[j + 5].close < recent[j].open
              \/ /\ recent[j].low < MinLow(recent, 1, j - 1)
                 /\ recent[j + 5].close > recent[j].open

\* The structure dict: bos_levels and choch_levels as lists, the current
\* structure 'BULLISH', 'BEARISH' or None.
analyze_market_structure(bs) ==
    LET swing_highs == SwingHighs(bs)
        swing_lows == SwingLows(bs)
        recent_highs == LastN([n \in DOMAIN swing_highs |->
                                  bs[swing_highs[n]].high], 3)
        recent_lows == LastN([n \in DOMAIN swing_lows |->
                                 bs[swing_lows[n]].low], 3)
        analysed == Len(swing_highs) >= 2 /\ Len(swing_lows) >= 2
        h == Len(recent_highs)
        l == Len(recent_lows)
    IN  [current_structure |->
            IF analysed /\ recent_lows[l] > recent_lows[l - 1] THEN BULLISH
            ELSE IF analysed /\ recent_lows[l] < recent_lows[l - 1]
                 THEN BEARISH
                 ELSE "None",
         bos_levels |->
            IF analysed /\ recent_highs[h] > recent_highs[h - 1]
            THEN <<[type |-> "BULLISH_BOS", level |-> recent_highs[h - 1],
                    broken_at |-> recent_highs[h]]>>
            ELSE <<>>,
         choch_levels |->
            IF analysed /\ ~(recent_lows[l] > recent_lows[l - 1])
                        /\ recent_lows[l] < recent_lows[l - 1]
            THEN <<[type |-> "BEARISH_CHOCH", level |-> recent_lows[l - 1]]>>
            ELSE <<>>,
         inducement_detected |-> InducementDetected(bs)]

\* Six bars of the market: one that reaches up by u and down by d wicks
\* beyond the range, then five inside the range.
Leg(u, d) ==
    <<[open |-> BasePrice, close |-> BasePrice,
       high |-> BasePrice + Wick + u * Wick,
       low |-> BasePrice - Wick - d * Wick]>>
    \o [k \in 1..5 |-> QuietBar(BasePrice)]

Reaches == 0..3

MaxLegs == 4

NotStruct == <<confVars, tpVars, posVars, ictVars, genVars, eqVars, dataVars,
               runVars, entryVars, poolVars, cycleVars,
    coolVars,
    loopVars,
    retryVars,
    labelVars>>

StructInit ==
    /\ LabelIdle
    /\ RetryIdle
    /\ LoopIdle
    /\ CoolIdle
    /\ structure_bars \in {<<>>, [k \in 1..5 |-> QuietBar(BasePrice)]}
    /\ structure = Pending
    /\ CycleIdle
    /\ DataIdle
    /\ RunIdle
    /\ EntryIdle
    /\ PoolIdle
    /\ ConfIdle
    /\ TPIdle
    /\ PosIdle
    /\ IctIdle
    /\ GenIdle
    /\ EqIdle

\* Six more bars close before the frame is analysed.
AppendLeg ==
    /\ structure = Pending
    /\ Len(structure_bars) < 6 * MaxLegs
    /\ \E u \in Reaches, d \in Reaches :
          structure_bars' = structure_bars \o Leg(u, d)
    /\ UNCHANGED structure
    /\ UNCHANGED NotStruct

\* ict.analyze_market_structure()
AnalyzeMarketStructure ==
    /\ structure = Pending
    /\ structure' = analyze_market_structure(structure_bars)
    /\ UNCHANGED structure_bars
    /\ UNCHANGED NotStruct

StructNext == AppendLeg \/ AnalyzeMarketStructure

SpecStruct == StructInit /\ [][StructNext]_vars

\* The prices of the swing highs and of the swing lows of the frame.
C19_Highs ==
    [n \in DOMAIN SwingHighs(structure_bars) |->
        structure_bars[SwingHighs(structure_bars)[n]].high]

C19_Lows ==
    [n \in DOMAIN SwingLows(structure_bars) |->
        structure_bars[SwingLows(structure_bars)[n]].low]

\* C19: a break of structure is flagged when the latest swing high exceeds
\* the previous one and when the latest swing low is below the previous
\* one; a change of character is flagged only when the swing lows reverse
\* direction, the latest one moving against the one before it.
C19_StructureFlags ==
    structure # Pending
    => LET hs == C19_Highs
           ls == C19_Lows
           h == Len(hs)
           l == Len(ls)
       IN  /\ (h >= 2 /\ hs[h] > hs[h - 1]) => structure.bos_levels # <<>>
           /\ (l >= 2 /\ ls[l] < ls[l - 1]) => structure.bos_levels # <<>>
           /\ structure.choch_levels # <<>>
              => /\ l >= 3
                 /\ \/ ls[l] < ls[l - 1] /\ ls[l - 1] > ls[l - 2]
                    \/ ls[l] > ls[l - 1] /\ ls[l - 1] < ls[l - 2]

(***************************************************************************)
(* Forwarding a signal for charting and notification                       *)
(***************************************************************************)

\* The signal dict of generate_signal has no 'entry_timeframe' key, so
\* signal.get('entry_timeframe', '15m') is '15m'; the chart frame is that
\* of the first key of data_dict equal to it or ending with it.
ChartTimeframe(sig) ==
    IF "entry_timeframe" \in DOMAIN sig THEN sig.entry_timeframe ELSE "15m"

\* str.endswith on the keys of data_dict: of "5m", "15m", "1h" and "4h"
\* only "15m" ends with another one, "5m".
EndsWith(tf_key, suffix) ==
    tf_key = suffix \/ (tf_key = "15m" /\ suffix = "5m")

\* The arguments of create_signal_chart, or None when no key matches.
_process_and_send_signal(sig, d) ==
    LET entry_tf == ChartTimeframe(sig)
        matching == SelectSeq(Keys(d),
                              LAMBDA tf_key : \/ tf_key = entry_tf
                                              \/ EndsWith(tf_key, entry_tf))
    IN  IF matching # <<>>
        THEN [chart_df |-> d[matching[1]], timeframe_key |-> matching[1],
              entry_tf |-> entry_tf]
        ELSE NoResult

\* What _fetch_all_timeframes leaves under a timeframe: a frame, or no
\* key when the fetch returned None.
FetchedFrames ==
    {[trend |-> t, order_blocks |-> <<>>, close |-> EntryPrice]
        : t \in {BULLISH, BEARISH}} \cup {Missing}

NotCycle == <<confVars, tpVars, posVars, ictVars, genVars, eqVars, dataVars,
              runVars, entryVars, poolVars, structVars,
    coolVars,
    loopVars,
    retryVars,
    labelVars>>

CycleInit ==
    /\ LabelIdle
    /\ RetryIdle
    /\ LoopIdle
    /\ CoolIdle
    /\ cycle_input \in
          {in \in [d : [Range(TimeframeKeys) -> FetchedFrames],
                   ev : EntryEvidence,
                   clock : {300, 480}] :
              Keys(in.d) # <<>>}
    /\ cycle_signal = Pending
    /\ chart_call = Pending
    /\ signal_sent = FALSE
    /\ DataIdle
    /\ RunIdle
    /\ EntryIdle
    /\ PoolIdle
    /\ StructIdle
    /\ ConfIdle
    /\ TPIdle
    /\ PosIdle
    /\ IctIdle
    /\ GenIdle
    /\ EqIdle

\* analysis_cycle, step 4: SignalGenerator(data_dict, news).generate_signal()
CycleGenerateSignal ==
    /\ cycle_signal = Pending
    /\ cycle_signal' = generate_signal(cycle_input.d, <<>>, cycle_input.ev,
                                       cycle_input.clock, 10000, 200)
    /\ UNCHANGED <<cycle_input, chart_call, signal_sent>>
    /\ UNCHANGED NotCycle

\* analysis_cycle with a signal and no cooldown: the chart, then Discord.
ProcessAndSendSignal ==
    /\ "direction" \in DOMAIN cycle_signal
    /\ ~signal_sent
    /\ chart_call' = _process_and_send_signal(cycle_signal, cycle_input.d)
    /\ signal_sent' = TRUE
    /\ UNCHANGED <<cycle_input, cycle_signal>>
    /\ UNCHANGED NotCycle

CycleNext == CycleGenerateSignal \/ ProcessAndSendSignal

SpecCycle == CycleInit /\ [][CycleNext]_vars

\* C20: the bar series handed to the charting collaborator is the series
\* of the entry timeframe the signal was computed on, the one
\* _get_entry_timeframe chose, for every set of available timeframes.
C20_ChartOfEntryTimeframe ==
    (signal_sent /\ "chart_df" \in DOMAIN chart_call)
    => chart_call.timeframe_key
          = _get_entry_timeframe(Analysed(cycle_input.d))

(***************************************************************************)
(* The cooldown between forwarded signals                                  *)
(***************************************************************************)

\* self.last_signal_time = None
NoTime == -1

\* timedelta(hours=2)
COOLDOWN_HOURS == 2

\* A cooldown that must be exceeded, not reached.
_should_send_signal_strict(t, last) ==
    last = NoTime \/ t - last > COOLDOWN_HOURS

\* True when no signal was stamped yet or the cooldown has passed.
_should_send_signal(t, last) ==
    last = NoTime \/ t - last >= COOLDOWN_HOURS

MaxHours == 6

NotCool == <<confVars, tpVars, posVars, ictVars, genVars, eqVars, dataVars,
             runVars, entryVars, poolVars, structVars, cycleVars,
    loopVars,
    retryVars,
    labelVars>>

CoolInit ==
    /\ LabelIdle
    /\ RetryIdle
    /\ LoopIdle
    /\ utcnow = 0
    /\ last_signal_time = NoTime
    /\ signals_generated = 0
    /\ forwarded_at = <<>>
    /\ delivered = 0
    /\ last_cycle = Pending
    /\ DataIdle
    /\ RunIdle
    /\ EntryIdle
    /\ PoolIdle
    /\ StructIdle
    /\ CycleIdle
    /\ ConfIdle
    /\ TPIdle
    /\ PosIdle
    /\ IctIdle
    /\ GenIdle
    /\ EqIdle

\* asyncio.sleep(settings.ANALYSIS_INTERVAL) between two cycles
Sleep ==
    /\ utcnow < MaxHours
    /\ utcnow' = utcnow + 1
    /\ UNCHANGED <<last_signal_time, signals_generated, forwarded_at,
                   delivered, last_cycle>>
    /\ UNCHANGED NotCool

\* An analysis cycle whose generate_signal returned None.
CycleWithoutSignal ==
    /\ last_cycle' = [signal |-> FALSE, forwarded |-> FALSE, sent |-> FALSE,
                      at |-> utcnow, last_before |-> last_signal_time]
    /\ UNCHANGED <<utcnow, last_signal_time, signals_generated, forwarded_at,
                   delivered>>
    /\ UNCHANGED NotCool

\* An analysis cycle with a signal: forwarded when the cooldown allows it,
\* whether or not the channel takes it (every failure of the delivery is
\* logged and swallowed), then counted and stamped with the time after the
\* sending; suppressed otherwise.
CycleWithSignal ==
    IF _should_send_signal(utcnow, last_signal_time)
    THEN \E took \in {0, 1}, ok \in BOOLEAN :
            /\ utcnow + took <= MaxHours
            /\ forwarded_at' = Append(forwarded_at, utcnow)
            /\ delivered' = IF ok THEN delivered + 1 ELSE delivered
            /\ utcnow' = utcnow + took
            /\ signals_generated' = signals_generated + 1
            /\ last_signal_time' = utcnow'
            /\ last_cycle' = [signal |-> TRUE, forwarded |-> TRUE,
                              sent |-> ok, at |-> utcnow,
                              last_before |-> last_signal_time]
            /\ UNCHANGED NotCool
    ELSE /\ last_cycle' = [signal |-> TRUE, forwarded |-> FALSE,
                           sent |-> FALSE, at |-> utcnow,
                           last_before |-> last_signal_time]
         /\ UNCHANGED <<utcnow, last_signal_time, signals_generated,
                        forwarded_at, delivered>>
         /\ UNCHANGED NotCool

CoolNext == Sleep \/ CycleWithoutSignal \/ CycleWithSignal

SpecCool == CoolInit /\ [][CoolNext]_vars

\* C21: a generated signal is forwarded iff none was forwarded before or
\* at least 2 hours have passed since the last one was stamped; two
\* forwarded signals are never less than 2 hours apart; a suppressed
\* signal leaves last_signal_time as it was.
C21_Cooldown ==
    /\ (last_cycle # Pending /\ last_cycle.signal)
       => /\ last_cycle.forwarded
             <=> \/ last_cycle.last_before = NoTime
                 \/ last_cycle.at - last_cycle.last_before >= COOLDOWN_HOURS
          /\ (last_cycle.last_before = NoTime)
             <=> (Len(forwarded_at) = IF last_cycle.forwarded THEN 1 ELSE 0)
          /\ ~last_cycle.forwarded
             => last_signal_time = last_cycle.last_before
    /\ \A i, j \in DOMAIN forwarded_at :
          i < j => forwarded_at[j] - forwarded_at[i] >= COOLDOWN_HOURS

\* Two signals were forwarded and a third one is suppressed.
C21_Witness ==
    /\ Len(forwarded_at) >= 2
    /\ last_cycle # Pending
    /\ last_cycle.signal /\ ~last_cycle.forwarded
    /\ last_cycle.at - last_cycle.last_before < COOLDOWN_HOURS

\* C30: last_signal_time and signals_generated change only for signals
\* that were delivered: a signal whose delivery failed is not counted and
\* starts no cooldown.
C30_OnlyDeliveredCounted ==
    /\ signals_generated = delivered
    /\ (last_cycle # Pending /\ last_cycle.forwarded /\ ~last_cycle.sent)
       => last_signal_time = last_cycle.last_before

\* ---------------------------------------------------------------------
\* The main loop: consecutive errors and the exit paths
\* (src/src/main.py, GoldAnalysisBot.run and _signal_handler)
\* ---------------------------------------------------------------------

max_consecutive_errors == 5

MaxCycles == 7

\* a variant that tolerates one more failure before stopping
ErrorLimitReached_after(n) == n > max_consecutive_errors

\* if consecutive_errors >= max_consecutive_errors: ... break
ErrorLimitReached(n) == n >= max_consecutive_errors

NotLoop == <<confVars, tpVars, posVars, ictVars, genVars, eqVars, dataVars,
    runVars, entryVars, poolVars, structVars, cycleVars, coolVars,
    retryVars,
    labelVars>>

\* run() has set is_running and its counters and is about to test the
\* while condition for the first time
LoopInit ==
    /\ LabelIdle
    /\ RetryIdle
    /\ is_running = TRUE
    /\ consecutive_errors = 0
    /\ analysis_count = 0
    /\ shutdown_calls = 0
    /\ loop_state = "looping"
    /\ stop_cause = "none"
    /\ cycle_log = <<>>
    /\ ConfIdle
    /\ TPIdle
    /\ PosIdle
    /\ IctIdle
    /\ GenIdle
    /\ EqIdle
    /\ DataIdle
    /\ RunIdle
    /\ EntryIdle
    /\ PoolIdle
    /\ StructIdle
    /\ CycleIdle
    /\ CoolIdle

\* _signal_handler: SIGINT or SIGTERM arrives while the loop is running
SignalHandler ==
    /\ loop_state = "looping"
    /\ is_running
    /\ is_running' = FALSE
    /\ UNCHANGED <<consecutive_errors, analysis_count, shutdown_calls,
                   loop_state, stop_cause, cycle_log>>
    /\ UNCHANGED NotLoop

\* one iteration whose analysis_cycle returns: the counter is reset, the
\* cycle is counted, and the loop sleeps until the next cycle
CycleCompletes ==
    /\ loop_state = "looping"
    /\ is_running
    /\ Len(cycle_log) < MaxCycles
    /\ consecutive_errors' = 0
    /\ analysis_count' = analysis_count + 1
    /\ cycle_log' = Append(cycle_log, FALSE)
    /\ UNCHANGED <<is_running, shutdown_calls, loop_state, stop_cause>>
    /\ UNCHANGED NotLoop

\* one iteration whose analysis_cycle raises an Exception: the handler
\* counts it, reports it, and either breaks (followed by shutdown()) or
\* sleeps 60 s before the next iteration
CycleRaises ==
    /\ loop_state = "looping"
    /\ is_running
    /\ Len(cycle_log) < MaxCycles
    /\ consecutive_errors' = consecutive_errors + 1
    /\ cycle_log' = Append(cycle_log, TRUE)
    /\ IF ErrorLimitReached(consecutive_errors')
       THEN /\ loop_state' = "returned"
            /\ stop_cause' = "error_limit"
            /\ shutdown_calls' = shutdown_calls + 1
       ELSE UNCHANGED <<loop_state, stop_cause, shutdown_calls>>
    /\ UNCHANGED <<is_running, analysis_count>>
    /\ UNCHANGED NotLoop

\* the while condition is false: the loop ends and shutdown() runs
LoopSeesFlag ==
    /\ loop_state = "looping"
    /\ ~is_running
    /\ loop_state' = "returned"
    /\ stop_cause' = "shutdown_flag"
    /\ shutdown_calls' = shutdown_calls + 1
    /\ UNCHANGED <<is_running, consecutive_errors, analysis_count, cycle_log>>
    /\ UNCHANGED NotLoop

\* except KeyboardInterrupt: break, raised in the try block either by the
\* cycle (counted = FALSE) or by the sleep that follows a counted cycle
KeyboardInterrupt ==
    /\ loop_state = "looping"
    /\ is_running
    /\ \E counted \in BOOLEAN :
         IF counted
         THEN /\ Len(cycle_log) < MaxCycles
              /\ consecutive_errors' = 0
              /\ analysis_count' = analysis_count + 1
              /\ cycle_log' = Append(cycle_log, FALSE)
         ELSE UNCHANGED <<consecutive_errors, analysis_count, cycle_log>>
    /\ loop_state' = "returned"
    /\ stop_cause' = "keyboard_interrupt"
    /\ shutdown_calls' = shutdown_calls + 1
    /\ UNCHANGED is_running
    /\ UNCHANGED NotLoop

LoopNext ==
    \/ SignalHandler
    \/ CycleCompletes
    \/ CycleRaises
    \/ LoopSeesFlag
    \/ KeyboardInterrupt

SpecLoop == LoopInit /\ [][LoopNext]_vars

\* the number of raised cycles at the end of the log
RECURSIVE TrailingRaised(_)
TrailingRaised(log) ==
    IF log = <<>> \/ ~log[Len(log)] THEN 0
    ELSE 1 + TrailingRaised(SubSeq(log, 1, Len(log) - 1))

\* the number of cycles in the log that returned
RECURSIVE Completed(_)
Completed(log) ==
    IF log = <<>> THEN 0
    ELSE (IF log[Len(log)] THEN 0 ELSE 1)
         + Completed(SubSeq(log, 1, Len(log) - 1))

\* C22: the loop has stopped because of errors exactly when the last 5
\* cycles in a row raised; the error counter is the number of raised cycles
\* since the last completed one (so a completed cycle resets it to 0);
\* analysis_count counts the completed cycles only; and shutdown() has run
\* once on every exit path and not at all while the loop is running.
C22_ErrorLimitAndShutdown ==
    /\ (stop_cause = "error_limit") <=> (TrailingRaised(cycle_log) >= 5)
    /\ consecutive_errors = TrailingRaised(cycle_log)
    /\ analysis_count = Completed(cycle_log)
    /\ shutdown_calls = (IF loop_state = "returned" THEN 1 ELSE 0)
    /\ (loop_state = "returned") <=>
           (stop_cause \in {"error_limit", "shutdown_flag", "keyboard_interrupt"})

C22_Witness ==
    /\ stop_cause = "error_limit"
    /\ shutdown_calls = 1
    /\ analysis_count >= 1
    /\ Len(cycle_log) > 5

\* ---------------------------------------------------------------------
\* Retried downloads
\* (src/src/data/yahoo_finance_client.py, YahooFinanceClient._fetch_with_retry)
\* ---------------------------------------------------------------------

max_retries == 3

MaxFetches == 2

\* a variant that waits one second after every failure
wait_time_fixed(attempt) == 1

\* wait_time = 2 ** attempt
wait_time(attempt) == 2 ^ attempt

\* What one invocation of the wrapped call does: it returns a value or
\* raises an exception.
Returns(v) == [ok |-> TRUE, val |-> v]

Raises(e) == [ok |-> FALSE, val |-> e]

CallOutcomes ==
    {Returns(v) : v \in {"frame", "empty_frame", "info"}}
        \cup {Raises(e) : e \in {"Timeout", "HTTPError", "KeyError"}}

\* the loop of _fetch_with_retry from iteration `attempt` on; func[k] is
\* what the k-th invocation of the wrapped call does, and trace holds the
\* invocations, sleeps and re-initialisations made so far
RECURSIVE RetryLoop(_, _, _)
RetryLoop(func, attempt, trace) ==
    LET out    == func[attempt + 1]
        called == [trace EXCEPT !.calls = Append(@, out)]
    IN  IF out.ok
        THEN [called EXCEPT !.result = [value |-> out.val]]
        ELSE IF attempt < max_retries - 1
             THEN RetryLoop(func, attempt + 1,
                     [called EXCEPT
                         !.sleeps = Append(@, wait_time(attempt)),
                         !.initialised =
                             IF attempt = 1 THEN Append(@, attempt + 1) ELSE @])
             ELSE [called EXCEPT !.result = Raised(out.val)]

_fetch_with_retry(func) ==
    RetryLoop(func, 0,
        [calls |-> <<>>, sleeps |-> <<>>, initialised |-> <<>>,
         result |-> Pending])

NotRetry == <<confVars, tpVars, posVars, ictVars, genVars, eqVars, dataVars,
    runVars, entryVars, poolVars, structVars, cycleVars, coolVars, loopVars,
    labelVars>>

RetryInit ==
    /\ LabelIdle
    /\ fetches = 0
    /\ fetch_func = <<>>
    /\ fetch_trace = Pending
    /\ ConfIdle
    /\ TPIdle
    /\ PosIdle
    /\ IctIdle
    /\ GenIdle
    /\ EqIdle
    /\ DataIdle
    /\ RunIdle
    /\ EntryIdle
    /\ PoolIdle
    /\ StructIdle
    /\ CycleIdle
    /\ CoolIdle
    /\ LoopIdle

\* one call of _fetch_with_retry around a call whose successive
\* invocations behave as func says
FetchWithRetry ==
    /\ fetches < MaxFetches
    /\ \E func \in [1..max_retries -> CallOutcomes] :
         /\ fetch_func' = func
         /\ fetch_trace' = _fetch_with_retry(func)
    /\ fetches' = fetches + 1
    /\ UNCHANGED NotRetry

RetryNext == FetchWithRetry

SpecRetry == RetryInit /\ [][RetryNext]_vars

\* the invocations of func before and including its first success
FirstSuccess(func) ==
    IF \E k \in 1..Len(func) : func[k].ok
    THEN CHOOSE k \in 1..Len(func) :
             func[k].ok /\ \A j \in 1..(k - 1) : ~func[j].ok
    ELSE 0

\* C23: the wrapped call is invoked at most 3 times; the first success
\* ends the attempts and its value is returned; the wait is 1 s after the
\* first failure and 2 s after the second; the symbol initialisation runs
\* only after the second failure; the exception of the third failure is
\* raised to the caller.
C23_RetryPolicy ==
    fetch_trace # Pending =>
        LET k == FirstSuccess(fetch_func)
            n == Len(fetch_trace.calls)
        IN  /\ n <= 3
            /\ n >= 1
            /\ fetch_trace.calls = SubSeq(fetch_func, 1, n)
            /\ k # 0 => /\ n = k
                        /\ fetch_trace.result = [value |-> fetch_func[k].val]
            /\ k = 0 => /\ n = 3
                        /\ fetch_trace.result = Raised(fetch_func[3].val)
            /\ fetch_trace.sleeps = SubSeq(<<1, 2>>, 1, n - 1)
            /\ fetch_trace.initialised = (IF n = 3 THEN <<2>> ELSE <<>>)

C23_Witness ==
    /\ fetch_trace # Pending
    /\ Len(fetch_trace.calls) = 3
    /\ IsRaised(fetch_trace.result)
    /\ fetch_trace.sleeps = <<1, 2>>
    /\ fetch_trace.initialised = <<2>>
    /\ fetch_func[1].val # fetch_func[3].val

(***************************************************************************)
(* The liquidity-sweep and structure-break confirmations                   *)
(***************************************************************************)

\* `if any(liq.get('swept', False) for liq in
\*         liquidity.get('buy_side', [])[:2] + liquidity.get('sell_side', [])[:2])`
LiquiditySweep(liquidity) ==
    LET checked == Take(liquidity.buy_side, 2) \o Take(liquidity.sell_side, 2)
    IN  IF \E n \in DOMAIN checked : checked[n].swept
        THEN <<"LIQUIDITY_SWEEP">>
        ELSE <<>>

\* `if ict_result.get('market_structure', {}).get('bos_levels')`
MarketStructureBreak(market_structure) ==
    IF market_structure.bos_levels # <<>>
    THEN <<"MARKET_STRUCTURE_BREAK">>
    ELSE <<>>

NotSweep == <<confVars, tpVars, posVars, ictVars, genVars, eqVars, dataVars,
    runVars, entryVars, structVars, cycleVars, coolVars, loopVars, retryVars>>

SweepInit ==
    /\ pool_bars \in {QuietRange(n) : n \in RangeLengths}
    /\ liquidity_pools = Pending
    /\ candidate \in {BUY, SELL}
    /\ ict_labels = Pending
    /\ ConfIdle
    /\ TPIdle
    /\ PosIdle
    /\ IctIdle
    /\ GenIdle
    /\ EqIdle
    /\ DataIdle
    /\ RunIdle
    /\ EntryIdle
    /\ StructIdle
    /\ CycleIdle
    /\ CoolIdle
    /\ LoopIdle
    /\ RetryIdle

\* step 10 of _collect_confirmations on the pools of the analysed frame
CollectLiquiditySweep ==
    /\ liquidity_pools # Pending
    /\ ~IsRaised(liquidity_pools)
    /\ ict_labels = Pending
    /\ ict_labels' = [labels |-> LiquiditySweep(liquidity_pools)]
    /\ UNCHANGED <<candidate, pool_bars, liquidity_pools>>
    /\ UNCHANGED NotSweep

SweepNext == AppendPoolBar \/ IdentifyLiquidityPools \/ CollectLiquiditySweep

SpecSweep == SweepInit /\ [][SweepNext]_vars

\* C28: LIQUIDITY_SWEEP is added if and only if at least one buy-side or
\* sell-side pool of the ICT result has swept = true.
C28_SweepLabelIffAnySwept ==
    ict_labels # Pending =>
        ((ict_labels.labels = <<"LIQUIDITY_SWEEP">>)
         <=> (\/ \E n \in DOMAIN liquidity_pools.buy_side :
                     liquidity_pools.buy_side[n].swept
              \/ \E n \in DOMAIN liquidity_pools.sell_side :
                     liquidity_pools.sell_side[n].swept))

NotBreak == <<confVars, tpVars, posVars, ictVars, genVars, eqVars, dataVars,
    runVars, entryVars, poolVars, cycleVars, coolVars, loopVars, retryVars>>

BreakInit ==
    /\ structure_bars \in {<<>>, [k \in 1..5 |-> QuietBar(BasePrice)]}
    /\ structure = Pending
    /\ candidate \in {BUY, SELL}
    /\ ict_labels = Pending
    /\ ConfIdle
    /\ TPIdle
    /\ PosIdle
    /\ IctIdle
    /\ GenIdle
    /\ EqIdle
    /\ DataIdle
    /\ RunIdle
    /\ EntryIdle
    /\ PoolIdle
    /\ CycleIdle
    /\ CoolIdle
    /\ LoopIdle
    /\ RetryIdle

\* step 9 of _collect_confirmations on the structure of the analysed frame
CollectMarketStructureBreak ==
    /\ structure # Pending
    /\ ict_labels = Pending
    /\ ict_labels' = [labels |-> MarketStructureBreak(structure)]
    /\ UNCHANGED <<candidate, structure_bars, structure>>
    /\ UNCHANGED NotBreak

BreakNext == AppendLeg \/ AnalyzeMarketStructure \/ CollectMarketStructureBreak

SpecBreak == BreakInit /\ [][BreakNext]_vars

\* C29: MARKET_STRUCTURE_BREAK is added for a SELL candidate only when the
\* detected break of structure is bearish, and for a BUY candidate only
\* when it is bullish.
C29_BreakInCandidateDirection ==
    (ict_labels # Pending /\ ict_labels.labels = <<"MARKET_STRUCTURE_BREAK">>) =>
        \A n \in DOMAIN structure.bos_levels :
            structure.bos_levels[n].type =
                (IF candidate = BUY THEN "BULLISH_BOS" ELSE "BEARISH_BOS")

====
